---- MODULE Spec2Model ----
(***************************************************************************)
(* A model of the issue-checker action: the rule analysis of               *)
(* src/dist/main.js (labelRuleAnalyze, commentRuleAnalyze), the older      *)
(* analysis of src/src/main.ts (itemAnalyze), the push-event adapter       *)
(* (getEventInfo / getIssueNumbersFromMessage) and the driver (run).       *)
(*                                                                         *)
(* Texts (issue content, author association, patterns, links, commit       *)
(* messages) are sequences of one-character strings; label names, rule     *)
(* names and comment bodies are strings.                                   *)
(***************************************************************************)
EXTENDS Integers, Sequences, FiniteSets, TLC

VARIABLES
    program,             \* which analysis the pass runs: "dist" | "ts" | "comment"
    itemMap,             \* the rule list handed to the analysis
    issueContent,        \* the text matched by the rules
    author_association,  \* the author association of the event
    event_name,          \* the event type of the run
    links,               \* hrefs of the rendered content (markdown.render + cheerio)
    pc,                  \* position of the pass / of run()
    result,              \* what the analysis returned
    notBefore,           \* Date.parse of the input not-before
    syncLabels,          \* parseInt of the input sync-labels
    created_at,          \* Date.parse of the payload's created_at
    comment_id,          \* payload.comment.id, 0 when it is missing
    includeTitle,        \* parseInt of the input include-title
    title,               \* the title of the issue or pull request
    commits,             \* the messages of payload.commits (push)
    config,              \* what the configuration path holds
    issueLabels,         \* the labels on the issue at the backend
    issue_number,        \* the issue number of the payload, or those extracted (push)
    params,              \* the rules loadRules returned
    calls,               \* the backend requests issued so far, in order
    failed,              \* core.setFailed was called
    warnings             \* the positions in calls of the requests that failed (core.warning)

analysisVars == <<program, itemMap, issueContent, author_association, event_name,
                  links, result>>

runVars == <<notBefore, syncLabels, created_at, comment_id, includeTitle, title,
             commits, config, issueLabels, issue_number, params, calls, failed,
             warnings>>

vars == <<analysisVars, pc, runVars>>

(***************************************************************************)
(* Bounds of the model.                                                    *)
(***************************************************************************)
MaxRules == 3

MaxCommits == 2

(***************************************************************************)
(* Sequence helpers (Array.prototype.includes / filter / Set.has).         *)
(***************************************************************************)
Includes(s, x) == \E i \in 1..Len(s) : s[i] = x

Range(s) == {s[i] : i \in 1..Len(s)}

SeqsUpTo(S, n) == UNION {[1..k -> S] : k \in 0..n}

NoDuplicates(s) == \A i, j \in 1..Len(s) : s[i] = s[j] => i = j

(***************************************************************************)
(* Pattern matching: String.prototype.match with a pattern string.  A      *)
(* pattern of the form /body/flags is compiled with its flags, any other   *)
(* pattern is compiled as it stands.  The model's patterns are made of     *)
(* literal characters, so a match is an occurrence of the pattern.         *)
(***************************************************************************)
Lower(c) == IF c = "A" THEN "a" ELSE IF c = "B" THEN "b" ELSE c

LowerSeq(s) == [i \in 1..Len(s) |-> Lower(s[i])]

Occurs(text, pat) ==
    \E i \in 0..(Len(text) - Len(pat)) : SubSeq(text, i + 1, i + Len(pat)) = pat

\* regEx.match(/^\/(.+)\/(.*)$/): greedy, so the body ends at the last slash
SlashPositions(p) == {k \in 3..Len(p) : p[k] = "/"}

IsRegEx(p) == Len(p) >= 3 /\ p[1] = "/" /\ SlashPositions(p) # {}

LastSlash(p) == CHOOSE k \in SlashPositions(p) : \A j \in SlashPositions(p) : j <= k

RegExBody(p) == SubSeq(p, 2, LastSlash(p) - 1)

RegExFlags(p) == SubSeq(p, LastSlash(p) + 1, Len(p))

MatchPattern(text, p) ==
    IF IsRegEx(p)
    THEN IF Includes(RegExFlags(p), "i")
         THEN Occurs(LowerSeq(text), LowerSeq(RegExBody(p)))
         ELSE Occurs(text, RegExBody(p))
    ELSE Occurs(text, p)

\* the index of the first pattern that does not match, 0 when all match
FirstMismatch(text, regexes) ==
    IF \A i \in 1..Len(regexes) : MatchPattern(text, regexes[i])
    THEN 0
    ELSE CHOOSE i \in 1..Len(regexes) :
            /\ ~MatchPattern(text, regexes[i])
            /\ \A j \in 1..(i - 1) : MatchPattern(text, regexes[j])

\* only the first pattern is tried
checkRegexes_FirstOnly(body, regexes) ==
    regexes = <<>> \/ MatchPattern(body, regexes[1])

\* checkRegexes returns false, or the (truthy) list of matches
checkRegexes(body, regexes) == FirstMismatch(body, regexes) = 0

checkAuthorAssociation(aa, regexes) == FirstMismatch(aa, regexes) = 0

(***************************************************************************)
(* Label modes of dist/main.js: each direction is `true` (all events) or   *)
(* a list of event types.                                                  *)
(***************************************************************************)
EventTypes == {"pull_request", "pull_request_target", "issues", "issue_comment", "push"}

getModeEvent(modeItem) == IF modeItem \in EventTypes THEN modeItem ELSE "undefined"

AllEvents == [all |-> TRUE, events |-> <<>>]

OnEvents(evs) == [all |-> FALSE, events |-> evs]

\* mode.add === true || mode.add.includes(event_name)
ModeEnables(direction, ev) == direction.all \/ Includes(direction.events, ev)

(***************************************************************************)
(* labelRuleAnalyze (dist/main.js).  The loop state is the three           *)
(* accumulators of the function; `trace` records, per rule, the branch     *)
(* the loop body took: "skip" (skip_if hit), "remove_if" (remove_if hit),  *)
(* "add" (condition holds, add enabled), "remove" (condition fails and     *)
(* the content is pushed to removeItems), "idle" (anything else).          *)
(***************************************************************************)
EmptyLoop == [addItems |-> <<>>, addItemNames |-> {}, removeItems |-> <<>>, trace |-> <<>>]

Hit(names, st) == \E i \in 1..Len(names) : names[i] \in st.addItemNames

PushNew(s, item) == IF item # "" /\ ~Includes(s, item) THEN Append(s, item) ELSE s

(***************************************************************************)
(* Variants of the loop body of labelRuleAnalyze, each with one slip.      *)
(***************************************************************************)
\* registers the rule's name only when it has a content to add
LabelRuleStep_NameNeedsContent(st, itemParams, content, aa, ev) ==
    LET item       == itemParams.content
        needAdd    == ModeEnables(itemParams.mode.add, ev)
        needRemove == ModeEnables(itemParams.mode.remove, ev)
    IN  IF Hit(itemParams.skip_if, st)
        THEN [st EXCEPT !.trace = Append(@, "skip")]
        ELSE IF Hit(itemParams.remove_if, st)
        THEN [st EXCEPT !.removeItems = PushNew(@, item),
                        !.trace = Append(@, "remove_if")]
        ELSE IF /\ checkAuthorAssociation(aa, itemParams.author_association)
                /\ checkRegexes(content, itemParams.regexes)
        THEN IF needAdd
             THEN [st EXCEPT !.addItems = PushNew(@, item),
                             !.addItemNames = IF item # "" THEN @ \cup {itemParams.name} ELSE @,
                             !.trace = Append(@, "add")]
             ELSE [st EXCEPT !.trace = Append(@, "idle")]
        ELSE IF needRemove /\ item # "" /\ ~Includes(st.removeItems, item)
        THEN [st EXCEPT !.removeItems = Append(@, item),
                        !.trace = Append(@, "remove")]
        ELSE [st EXCEPT !.trace = Append(@, "idle")]

\* removes the content of a rule whose condition holds while add is disabled
LabelRuleStep_RemoveWhenNotAdded(st, itemParams, content, aa, ev) ==
    LET item       == itemParams.content
        needAdd    == ModeEnables(itemParams.mode.add, ev)
        needRemove == ModeEnables(itemParams.mode.remove, ev)
    IN  IF Hit(itemParams.skip_if, st)
        THEN [st EXCEPT !.trace = Append(@, "skip")]
        ELSE IF Hit(itemParams.remove_if, st)
        THEN [st EXCEPT !.removeItems = PushNew(@, item),
                        !.trace = Append(@, "remove_if")]
        ELSE IF /\ checkAuthorAssociation(aa, itemParams.author_association)
                /\ checkRegexes(content, itemParams.regexes)
                /\ needAdd
        THEN [st EXCEPT !.addItems = PushNew(@, item),
                        !.addItemNames = @ \cup {itemParams.name},
                        !.trace = Append(@, "add")]
        ELSE IF needRemove /\ item # "" /\ ~Includes(st.removeItems, item)
        THEN [st EXCEPT !.removeItems = Append(@, item),
                        !.trace = Append(@, "remove")]
        ELSE [st EXCEPT !.trace = Append(@, "idle")]

\* consults remove_if before skip_if
LabelRuleStep_RemoveIfBeforeSkipIf(st, itemParams, content, aa, ev) ==
    LET item       == itemParams.content
        needAdd    == ModeEnables(itemParams.mode.add, ev)
        needRemove == ModeEnables(itemParams.mode.remove, ev)
    IN  IF Hit(itemParams.remove_if, st)
        THEN [st EXCEPT !.removeItems = PushNew(@, item),
                        !.trace = Append(@, "remove_if")]
        ELSE IF Hit(itemParams.skip_if, st)
        THEN [st EXCEPT !.trace = Append(@, "skip")]
        ELSE IF /\ checkAuthorAssociation(aa, itemParams.author_association)
                /\ checkRegexes(content, itemParams.regexes)
        THEN IF needAdd
             THEN [st EXCEPT !.addItems = PushNew(@, item),
                             !.addItemNames = @ \cup {itemParams.name},
                             !.trace = Append(@, "add")]
             ELSE [st EXCEPT !.trace = Append(@, "idle")]
        ELSE IF needRemove /\ item # "" /\ ~Includes(st.removeItems, item)
        THEN [st EXCEPT !.removeItems = Append(@, item),
                        !.trace = Append(@, "remove")]
        ELSE [st EXCEPT !.trace = Append(@, "idle")]

\* consults remove_if only after the rule's own condition
LabelRuleStep_MatchBeforeRemoveIf(st, itemParams, content, aa, ev) ==
    LET item       == itemParams.content
        needAdd    == ModeEnables(itemParams.mode.add, ev)
        needRemove == ModeEnables(itemParams.mode.remove, ev)
        matched    == /\ checkAuthorAssociation(aa, itemParams.author_association)
                      /\ checkRegexes(content, itemParams.regexes)
    IN  IF Hit(itemParams.skip_if, st)
        THEN [st EXCEPT !.trace = Append(@, "skip")]
        ELSE IF matched /\ needAdd
        THEN [st EXCEPT !.addItems = PushNew(@, item),
                        !.addItemNames = @ \cup {itemParams.name},
                        !.trace = Append(@, "add")]
        ELSE IF Hit(itemParams.remove_if, st)
        THEN [st EXCEPT !.removeItems = PushNew(@, item),
                        !.trace = Append(@, "remove_if")]
        ELSE IF ~matched /\ needRemove /\ item # "" /\ ~Includes(st.removeItems, item)
        THEN [st EXCEPT !.removeItems = Append(@, item),
                        !.trace = Append(@, "remove")]
        ELSE [st EXCEPT !.trace = Append(@, "idle")]

\* lets remove_if act only when the mode enables remove
LabelRuleStep_RemoveIfNeedsRemove(st, itemParams, content, aa, ev) ==
    LET item       == itemParams.content
        needAdd    == ModeEnables(itemParams.mode.add, ev)
        needRemove == ModeEnables(itemParams.mode.remove, ev)
    IN  IF Hit(itemParams.skip_if, st)
        THEN [st EXCEPT !.trace = Append(@, "skip")]
        ELSE IF Hit(itemParams.remove_if, st)
        THEN [st EXCEPT !.removeItems = IF needRemove THEN PushNew(@, item) ELSE @,
                        !.trace = Append(@, "remove_if")]
        ELSE IF /\ checkAuthorAssociation(aa, itemParams.author_association)
                /\ checkRegexes(content, itemParams.regexes)
        THEN IF needAdd
             THEN [st EXCEPT !.addItems = PushNew(@, item),
                             !.addItemNames = @ \cup {itemParams.name},
                             !.trace = Append(@, "add")]
             ELSE [st EXCEPT !.trace = Append(@, "idle")]
        ELSE IF needRemove /\ item # "" /\ ~Includes(st.removeItems, item)
        THEN [st EXCEPT !.removeItems = Append(@, item),
                        !.trace = Append(@, "remove")]
        ELSE [st EXCEPT !.trace = Append(@, "idle")]

\* the first decision taken for a content wins: no remove of a content already added
LabelRuleStep_FirstDecisionWins(st, itemParams, content, aa, ev) ==
    LET item       == itemParams.content
        needAdd    == ModeEnables(itemParams.mode.add, ev)
        needRemove == ModeEnables(itemParams.mode.remove, ev)
    IN  IF Hit(itemParams.skip_if, st)
        THEN [st EXCEPT !.trace = Append(@, "skip")]
        ELSE IF Hit(itemParams.remove_if, st)
        THEN [st EXCEPT !.removeItems = PushNew(@, item),
                        !.trace = Append(@, "remove_if")]
        ELSE IF /\ checkAuthorAssociation(aa, itemParams.author_association)
                /\ checkRegexes(content, itemParams.regexes)
        THEN IF needAdd
             THEN [st EXCEPT !.addItems = PushNew(@, item),
                             !.addItemNames = @ \cup {itemParams.name},
                             !.trace = Append(@, "add")]
             ELSE [st EXCEPT !.trace = Append(@, "idle")]
        ELSE IF /\ needRemove /\ item # "" /\ ~Includes(st.removeItems, item)
                /\ ~Includes(st.addItems, item)
        THEN [st EXCEPT !.removeItems = Append(@, item),
                        !.trace = Append(@, "remove")]
        ELSE [st EXCEPT !.trace = Append(@, "idle")]

LabelRuleStep(st, itemParams, content, aa, ev) ==
    LET item       == itemParams.content
        needAdd    == ModeEnables(itemParams.mode.add, ev)
        needRemove == ModeEnables(itemParams.mode.remove, ev)
    IN  IF Hit(itemParams.skip_if, st)
        THEN [st EXCEPT !.trace = Append(@, "skip")]
        ELSE IF Hit(itemParams.remove_if, st)
        THEN [st EXCEPT !.removeItems = PushNew(@, item),
                        !.trace = Append(@, "remove_if")]
        ELSE IF /\ checkAuthorAssociation(aa, itemParams.author_association)
                /\ checkRegexes(content, itemParams.regexes)
        THEN IF needAdd
             THEN [st EXCEPT !.addItems = PushNew(@, item),
                             !.addItemNames = @ \cup {itemParams.name},
                             !.trace = Append(@, "add")]
             ELSE [st EXCEPT !.trace = Append(@, "idle")]
        ELSE IF needRemove /\ item # "" /\ ~Includes(st.removeItems, item)
        THEN [st EXCEPT !.removeItems = Append(@, item),
                        !.trace = Append(@, "remove")]
        ELSE [st EXCEPT !.trace = Append(@, "idle")]

RECURSIVE LabelRuleLoop(_, _, _, _, _)
\* the loop state after the first k rules
LabelRuleLoop(rules, k, content, aa, ev) ==
    IF k = 0 THEN EmptyLoop
    ELSE LabelRuleStep(LabelRuleLoop(rules, k - 1, content, aa, ev),
                       rules[k], content, aa, ev)

\* returns the add list as accumulated, without the final filter
Reconcile_NoFilter(addItems, removeItems) == addItems

\* return [addItems.filter(item => !removeItems.includes(item)), removeItems]
Reconcile(addItems, removeItems) ==
    SelectSeq(addItems, LAMBDA item : ~Includes(removeItems, item))

labelRuleAnalyze(rules, content, aa, ev) ==
    LET st == LabelRuleLoop(rules, Len(rules), content, aa, ev)
    IN  [add |-> Reconcile(st.addItems, st.removeItems),
         remove |-> st.removeItems,
         update |-> <<>>,
         names |-> st.addItemNames,
         trace |-> st.trace]

(***************************************************************************)
(* itemAnalyze (src/main.ts).  A mode is a Map from a key (an event name   *)
(* or "add"/"remove") to '__all__', a string or a list of strings.         *)
(* The fields skip_if and remove_if are the Map keys 'skip-if' and         *)
(* 'remove-if'.                                                            *)
(***************************************************************************)
Str(x) == [kind |-> "str", items |-> <<x>>]

Arr(xs) == [kind |-> "arr", items |-> xs]

\* event_rule === '__all__' || event_rule === type || event_rule.includes(type)
RuleAdmits(rule, x) ==
    \/ rule.kind = "str" /\ (rule.items[1] = "__all__" \/ rule.items[1] = x)
    \/ rule.kind = "arr" /\ Includes(rule.items, x)

checkEvent(ev, mode, type) ==
    \/ ev \in DOMAIN mode /\ RuleAdmits(mode[ev], type)
    \/ type \in DOMAIN mode /\ RuleAdmits(mode[type], ev)

ItemStep(st, itemParams, content, aa, ev) ==
    LET item       == itemParams.content
        needAdd    == checkEvent(ev, itemParams.mode, "add")
        needRemove == checkEvent(ev, itemParams.mode, "remove")
    IN  IF (needAdd \/ needRemove) /\ ~Hit(itemParams.skip_if, st)
        THEN IF /\ ~Hit(itemParams.remove_if, st)
                /\ checkAuthorAssociation(aa, itemParams.author_association)
                /\ checkRegexes(content, itemParams.regexes)
             THEN IF needAdd
                  THEN [st EXCEPT !.addItems = PushNew(@, item),
                                  !.addItemNames = @ \cup {itemParams.name},
                                  !.trace = Append(@, "add")]
                  ELSE [st EXCEPT !.trace = Append(@, "idle")]
             ELSE IF needRemove
                  THEN [st EXCEPT !.removeItems = PushNew(@, item),
                                  !.trace = Append(@, "remove")]
                  ELSE [st EXCEPT !.trace = Append(@, "idle")]
        ELSE [st EXCEPT !.trace = Append(@, IF needAdd \/ needRemove
                                            THEN "skip" ELSE "inert")]

RECURSIVE ItemLoop(_, _, _, _, _)
ItemLoop(rules, k, content, aa, ev) ==
    IF k = 0 THEN EmptyLoop
    ELSE ItemStep(ItemLoop(rules, k - 1, content, aa, ev), rules[k], content, aa, ev)

itemAnalyze(rules, content, aa, ev) ==
    LET st == ItemLoop(rules, Len(rules), content, aa, ev)
    IN  [add |-> Reconcile(st.addItems, st.removeItems),
         remove |-> st.removeItems,
         update |-> <<>>,
         names |-> st.addItemNames,
         trace |-> st.trace]

(***************************************************************************)
(* The inputs of an analysis pass.                                         *)
(***************************************************************************)
OWNER == <<"O", "W", "N", "E", "R">>

NONE == <<"N", "O", "N", "E">>

Contents == {<<"a">>, <<"b">>}

Associations == {OWNER, NONE}

RuleEvents == {"issues", "issue_comment"}

\* modes as parseAllRules / parseLabelMode build them
SyncMode == [add |-> AllEvents, remove |-> AllEvents]

AddOnlyMode == [add |-> AllEvents, remove |-> OnEvents(<<>>)]

EventMode(e) == [add |-> OnEvents(<<e>>), remove |-> OnEvents(<<e>>)]

\* mode: remove
RemoveOnlyMode == [add |-> OnEvents(<<>>), remove |-> AllEvents]

LabelRule(name, content, regexes, aa, mode, skip_if, remove_if) ==
    [name |-> name, content |-> content, regexes |-> regexes,
     author_association |-> aa, mode |-> mode,
     skip_if |-> skip_if, remove_if |-> remove_if]

LabelRuleUniverse ==
    { LabelRule("A", "x", << <<"a">> >>, <<>>, SyncMode, <<>>, <<>>),
      LabelRule("A", "",  <<>>, <<>>, AddOnlyMode, <<>>, <<>>),
      LabelRule("A", "A", <<>>, <<OWNER>>, EventMode("issues"), <<>>, <<>>),
      LabelRule("A", "A", << <<"a">> >>, <<>>, RemoveOnlyMode, <<>>, <<>>),
      LabelRule("A", "A", << <<"b">> >>, <<>>, EventMode("issues"), <<>>, <<"B">>),
      LabelRule("B", "x", << <<"b">> >>, <<>>, SyncMode, <<>>, <<>>),
      LabelRule("B", "x", <<>>, <<>>, AddOnlyMode, <<>>, <<>>),
      LabelRule("B", "B", <<>>, <<>>, SyncMode, <<"A">>, <<>>),
      LabelRule("B", "B", << <<"a">> >>, <<>>, SyncMode, <<>>, <<"A">>),
      LabelRule("B", "B", <<>>, <<>>, SyncMode, <<"A">>, <<"A">>),
      LabelRule("B", "",  <<>>, <<>>, SyncMode, <<>>, <<"A">>),
      LabelRule("B", "x", <<>>, <<>>, EventMode("push"), <<>>, <<"A">>),
      LabelRule("B", "B", << <<"/", "A", "/", "i">> >>, <<>>, EventMode("push"), <<"A">>, <<>>) }

\* the default modes of getArraysFromObject, and modes getModeFromObject builds
TsSyncMode ==
    [k \in {"pull_request", "pull_request_target", "issue", "issue_comment"}
        |-> Arr(<<"add", "remove">>)]

TsAddOnlyMode ==
    [k \in {"pull_request", "pull_request_target", "issue", "issue_comment"}
        |-> Arr(<<"add">>)]

\* default_mode of getArraysFromObject when the document has no default-mode
TsDefaultMode(sync) == IF sync = 1 THEN TsSyncMode ELSE TsAddOnlyMode

TsRuleUniverse ==
    { LabelRule("A", "x", << <<"a">> >>, <<>>, TsAddOnlyMode, <<>>, <<>>),
      LabelRule("A", "x", << <<"a">> >>, <<>>,
                ("issues" :> Str("__all__")) @@ ("issue_comment" :> Str("__all__")),
                <<>>, <<>>),
      LabelRule("A", "",  <<>>, <<>>, ("add" :> Str("__all__")), <<>>, <<>>),
      LabelRule("A", "A", << <<"a">> >>, <<>>, ("remove" :> Str("__all__")), <<>>, <<>>),
      LabelRule("B", "x", << <<"b">> >>, <<>>, TsSyncMode, <<>>, <<>>),
      LabelRule("B", "x", <<>>, <<OWNER>>, ("add" :> Str("__all__")), <<>>, <<>>),
      LabelRule("B", "B", <<>>, <<>>, ("issues" :> Arr(<<"add", "remove">>)), <<"A">>, <<>>),
      LabelRule("B", "B", << <<"a">> >>, <<>>,
                ("issue_comment" :> Str("add")) @@ ("remove" :> Str("issues")),
                <<>>, <<"A">>),
      LabelRule("B", "x", <<>>, <<>>, ("push" :> Str("__all__")), <<"A">>, <<"A">>) }

(***************************************************************************)
(* commentRuleAnalyze (dist/main.js).  A comment body is a sequence of     *)
(* tokens, the token "${body}" standing for the placeholder; a rule whose  *)
(* content is null has the empty body.  url_list is absent (has_url_list   *)
(* FALSE) or a list of patterns: a string pattern is tested on the whole   *)
(* link, an object pattern maps URL fields to patterns.  Links are written *)
(* without their scheme: host, "/", path.                                  *)
(***************************************************************************)
StrPattern(re) == [kind |-> "str", fields |-> << <<"href", re>> >>]

ObjPattern(fields) == [kind |-> "obj", fields |-> fields]

FirstSlash(link) == CHOOSE k \in 1..Len(link) : link[k] = "/" /\ \A j \in 1..(k - 1) : link[j] # "/"

\* new URL(link)[k]
UrlField(link, k) ==
    IF k = "hostname" THEN SubSeq(link, 1, FirstSlash(link) - 1)
    ELSE IF k = "pathname" THEN SubSeq(link, FirstSlash(link), Len(link))
    ELSE link

\* (urlMode === 'allow_only' && !result) || (urlMode === 'deny' && result)
TestFlags(urlMode, res) == (urlMode = "allow_only" /\ ~res) \/ (urlMode = "deny" /\ res)

\* what one iteration of the pattern loop makes of `flag`
PatternFlags(link, pattern, urlMode) ==
    IF pattern.kind = "str"
    THEN TestFlags(urlMode, Occurs(link, pattern.fields[1][2]))
    ELSE \E f \in 1..Len(pattern.fields) :
            TestFlags(urlMode, Occurs(UrlField(link, pattern.fields[f][1]), pattern.fields[f][2]))

\* the loops over the links and the patterns stop at the first flag
UrlFlag(linkSeq, urlList, urlMode) ==
    \E l \in 1..Len(linkSeq) : \E p \in 1..Len(urlList) :
        PatternFlags(linkSeq[l], urlList[p], urlMode)

RECURSIVE ReplaceBody(_, _)
\* item.replace(/\$\{body\}/g, issueContent)
ReplaceBody(item, content) ==
    IF item = <<>> THEN <<>>
    ELSE (IF Head(item) = "${body}" THEN content ELSE <<Head(item)>>)
         \o ReplaceBody(Tail(item), content)

EmptyCommentLoop ==
    [addItems |-> <<>>, addItemNames |-> {}, updateItems |-> <<>>, trace |-> <<>>]

\* the condition of a rule once the author association is accepted
CommentCondition(itemParams, content, linkSeq) ==
    IF Len(itemParams.regexes) > 0
    THEN checkRegexes(content, itemParams.regexes)
    ELSE IF itemParams.has_url_list /\ itemParams.url_mode \in {"allow_only", "deny"}
    THEN Len(linkSeq) > 0 /\ UrlFlag(linkSeq, itemParams.url_list, itemParams.url_mode)
    ELSE FALSE

\* registers the name of an add-type rule only when it has a body to post
CommentRuleStep_NameNeedsContent(st, itemParams, content, aa, ev, linkSeq) ==
    LET item        == itemParams.content
        modeType    == itemParams.mode.type
        needComment == ModeEnables(itemParams.mode.event, ev)
        itemBody    == ReplaceBody(item, content)
    IN  IF Hit(itemParams.skip_if, st)
        THEN [st EXCEPT !.trace = Append(@, "skip")]
        ELSE IF ~needComment
        THEN [st EXCEPT !.trace = Append(@, "inert")]
        ELSE IF /\ checkAuthorAssociation(aa, itemParams.author_association)
                /\ CommentCondition(itemParams, content, linkSeq)
        THEN IF modeType = "add"
             THEN [st EXCEPT !.addItemNames = IF item # <<>> THEN @ \cup {itemParams.name}
                                              ELSE @,
                             !.addItems = IF item # <<>> THEN Append(@, itemBody) ELSE @,
                             !.trace = Append(@, "add")]
             ELSE IF modeType = "update"
             THEN [st EXCEPT !.updateItems = IF item # <<>> THEN Append(@, itemBody) ELSE @,
                             !.trace = Append(@, "update")]
             ELSE [st EXCEPT !.trace = Append(@, "idle")]
        ELSE [st EXCEPT !.trace = Append(@, "idle")]

\* registers the name of every rule that fires, whatever its type
CommentRuleStep_UpdateRegisters(st, itemParams, content, aa, ev, linkSeq) ==
    LET item        == itemParams.content
        modeType    == itemParams.mode.type
        needComment == ModeEnables(itemParams.mode.event, ev)
        itemBody    == ReplaceBody(item, content)
    IN  IF Hit(itemParams.skip_if, st)
        THEN [st EXCEPT !.trace = Append(@, "skip")]
        ELSE IF ~needComment
        THEN [st EXCEPT !.trace = Append(@, "inert")]
        ELSE IF /\ checkAuthorAssociation(aa, itemParams.author_association)
                /\ CommentCondition(itemParams, content, linkSeq)
        THEN IF modeType = "add"
             THEN [st EXCEPT !.addItemNames = @ \cup {itemParams.name},
                             !.addItems = IF item # <<>> THEN Append(@, itemBody) ELSE @,
                             !.trace = Append(@, "add")]
             ELSE IF modeType = "update"
             THEN [st EXCEPT !.addItemNames = @ \cup {itemParams.name},
                             !.updateItems = IF item # <<>> THEN Append(@, itemBody) ELSE @,
                             !.trace = Append(@, "update")]
             ELSE [st EXCEPT !.trace = Append(@, "idle")]
        ELSE [st EXCEPT !.trace = Append(@, "idle")]

CommentRuleStep(st, itemParams, content, aa, ev, linkSeq) ==
    LET item        == itemParams.content
        modeType    == itemParams.mode.type
        needComment == ModeEnables(itemParams.mode.event, ev)
        itemBody    == ReplaceBody(item, content)
    IN  IF Hit(itemParams.skip_if, st)
        THEN [st EXCEPT !.trace = Append(@, "skip")]
        ELSE IF ~needComment
        THEN [st EXCEPT !.trace = Append(@, "inert")]
        ELSE IF /\ checkAuthorAssociation(aa, itemParams.author_association)
                /\ CommentCondition(itemParams, content, linkSeq)
        THEN IF modeType = "add"
             THEN [st EXCEPT !.addItemNames = @ \cup {itemParams.name},
                             !.addItems = IF item # <<>> THEN Append(@, itemBody) ELSE @,
                             !.trace = Append(@, "add")]
             ELSE IF modeType = "update"
             THEN [st EXCEPT !.updateItems = IF item # <<>> THEN Append(@, itemBody) ELSE @,
                             !.trace = Append(@, "update")]
             ELSE [st EXCEPT !.trace = Append(@, "idle")]
        ELSE [st EXCEPT !.trace = Append(@, "idle")]

RECURSIVE CommentRuleLoop(_, _, _, _, _, _)
CommentRuleLoop(rules, k, content, aa, ev, linkSeq) ==
    IF k = 0 THEN EmptyCommentLoop
    ELSE CommentRuleStep(CommentRuleLoop(rules, k - 1, content, aa, ev, linkSeq),
                         rules[k], content, aa, ev, linkSeq)

commentRuleAnalyze(rules, content, aa, ev, linkSeq) ==
    LET st == CommentRuleLoop(rules, Len(rules), content, aa, ev, linkSeq)
    IN  [add |-> st.addItems,
         remove |-> <<>>,
         update |-> st.updateItems,
         names |-> st.addItemNames,
         trace |-> st.trace]

\* new Set(linkElements.map(...)): the distinct hrefs in document order
RECURSIVE Distinct(_)
Distinct(s) ==
    IF s = <<>> THEN <<>>
    ELSE LET front == Distinct(SubSeq(s, 1, Len(s) - 1))
         IN  IF Includes(front, s[Len(s)]) THEN front ELSE Append(front, s[Len(s)])

CommentRule(name, content, regexes, has_url_list, url_list, url_mode, aa, mode, skip_if) ==
    [name |-> name, content |-> content, regexes |-> regexes,
     has_url_list |-> has_url_list, url_list |-> url_list, url_mode |-> url_mode,
     author_association |-> aa, mode |-> mode, skip_if |-> skip_if]

CommentMode(type, event) == [type |-> type, event |-> event]

LinkG == <<"g", "/", "a">>

LinkE == <<"e", "/", "a">>

LinkLists == {<<>>, <<LinkG>>, <<LinkE>>, <<LinkG, LinkE, LinkG>>}

CommentRuleUniverse ==
    { CommentRule("A", <<"c">>, << <<"a">> >>, FALSE, <<>>, "undefined", <<>>,
                  CommentMode("add", AllEvents), <<>>),
      CommentRule("A", <<>>, << <<"a">> >>, FALSE, <<>>, "undefined", <<>>,
                  CommentMode("add", AllEvents), <<>>),
      CommentRule("A", <<"d">>, << <<"a">> >>, FALSE, <<>>, "undefined", <<>>,
                  CommentMode("update", AllEvents), <<>>),
      CommentRule("A", <<"c">>, <<>>, TRUE, <<StrPattern(<<"g">>)>>, "deny", <<>>,
                  CommentMode("add", AllEvents), <<>>),
      CommentRule("B", <<"c">>, <<>>, TRUE, <<StrPattern(<<"g">>), StrPattern(<<"e">>)>>,
                  "allow_only", <<>>, CommentMode("add", AllEvents), <<>>),
      CommentRule("B", <<"d">>, <<>>, TRUE,
                  <<ObjPattern(<< <<"hostname", <<"g">> >> >>)>>,
                  "deny", <<>>, CommentMode("add", AllEvents), <<>>),
      CommentRule("B", <<"c">>, <<>>, TRUE, <<StrPattern(<<"g">>)>>, "undefined", <<>>,
                  CommentMode("add", AllEvents), <<>>),
      CommentRule("B", <<"c", "${body}">>, << <<"b">> >>, FALSE, <<>>, "undefined", <<>>,
                  CommentMode("update", OnEvents(<<"issues">>)), <<"A">>),
      CommentRule("B", <<"c">>, << <<"a">> >>, FALSE, <<>>, "undefined", <<>>,
                  CommentMode("add", AllEvents), <<"A">>),
      CommentRule("B", <<"c">>, <<>>, FALSE, <<>>, "undefined", <<OWNER>>,
                  CommentMode("add", AllEvents), <<>>) }

MaxCommentRules == 2

NoResult == [add |-> <<>>, remove |-> <<>>, update |-> <<>>, names |-> {}, trace |-> <<>>]

(***************************************************************************)
(* Numbers that may be NaN (Date.parse, parseInt).                         *)
(***************************************************************************)
Num(v) == [nan |-> FALSE, v |-> v]

NaN == [nan |-> TRUE, v |-> 0]

\* if (n): neither NaN nor 0
Truthy(n) == ~n.nan /\ n.v # 0

(***************************************************************************)
(* getEventInfo for a push (dist/main.js), getIssueNumbersFromMessage      *)
(* (src/main.ts).  A commit message is a sequence of tokens: a verb        *)
(* ("Fix", "fix", "Close", "close"), white space (" ", "NL"), "#", the     *)
(* text "/issues/", a digit, or other text ("x").  The pattern is          *)
(*   /(?:[Ff]ix|[Cc]lose)\s+(?:#|.*\/issues\/)(\d+)/                       *)
(***************************************************************************)
IsVerb(t) == t \in {"Fix", "fix", "Close", "close"}

WhiteSpace == {" ", "NL"}

Digits == {"0", "1", "2", "3", "4", "5", "6", "7", "8", "9"}

IsDigit(t) == t \in Digits

DigitValue(t) ==
    CASE t = "0" -> 0 [] t = "1" -> 1 [] t = "2" -> 2 [] t = "3" -> 3 [] t = "4" -> 4
      [] t = "5" -> 5 [] t = "6" -> 6 [] t = "7" -> 7 [] t = "8" -> 8 [] t = "9" -> 9

RECURSIVE parseInt(_)
parseInt(digits) ==
    IF digits = <<>> THEN 0
    ELSE 10 * parseInt(SubSeq(digits, 1, Len(digits) - 1)) + DigitValue(digits[Len(digits)])

\* `.` matches any character but a line terminator
NotNL(m) == Range(m) \ {"NL"}

\* the last index of the longest run of tokens of S that starts at q
RunEnd(m, q, S) ==
    CHOOSE e \in (q - 1)..Len(m) :
        /\ \A i \in q..e : m[i] \in S
        /\ e = Len(m) \/ m[e + 1] \notin S

NoMatch == [found |-> FALSE, index |-> 0, last |-> 0, digits |-> <<>>]

\* the match of the pattern that starts at position p, if there is one
MatchAt(m, p) ==
    LET w == RunEnd(m, p + 1, WhiteSpace)
        q == w + 1
    IN  IF ~IsVerb(m[p]) \/ w < p + 1 \/ q > Len(m)
        THEN NoMatch
        ELSE IF m[q] = "#" /\ q + 1 <= Len(m) /\ IsDigit(m[q + 1])
        THEN [found |-> TRUE, index |-> p - 1, last |-> RunEnd(m, q + 1, Digits),
              digits |-> SubSeq(m, q + 1, RunEnd(m, q + 1, Digits))]
        ELSE LET lineEnd == RunEnd(m, q, NotNL(m))
                 urls == {u \in q..lineEnd :
                             m[u] = "/issues/" /\ u + 1 <= Len(m) /\ IsDigit(m[u + 1])}
             IN  IF urls = {} THEN NoMatch
                 ELSE LET u == CHOOSE x \in urls : \A y \in urls : y <= x
                      IN  [found |-> TRUE, index |-> p - 1,
                           last |-> RunEnd(m, u + 1, Digits),
                           digits |-> SubSeq(m, u + 1, RunEnd(m, u + 1, Digits))]

\* messages.match(globs): the leftmost match
Match(m) ==
    LET starts == {p \in 1..Len(m) : MatchAt(m, p).found}
    IN  IF starts = {} THEN NoMatch
        ELSE MatchAt(m, CHOOSE p \in starts : \A r \in starts : p <= r)

RECURSIVE joinMessages(_)
\* for (const commit of payload.commits) messages += `${commit.message}\n\n`
joinMessages(cs) ==
    IF cs = <<>> THEN <<>>
    ELSE Head(cs) \o <<"NL", "NL">> \o joinMessages(Tail(cs))

RECURSIVE getIssueNumbersFromMessage(_)
\* while (matchResult && matchResult.index) { push; slice; match again }
getIssueNumbersFromMessage(messages) ==
    LET matchResult == Match(messages)
    IN  IF matchResult.found /\ matchResult.index # 0
        THEN <<parseInt(matchResult.digits)>>
             \o getIssueNumbersFromMessage(SubSeq(messages, matchResult.last + 1, Len(messages)))
        ELSE <<>>

(***************************************************************************)
(* Configuration: loadRules, parseAllRules, parseRule and the mode parsers *)
(* (dist/main.js).  A value of the YAML document is a string Str(x), a     *)
(* list Arr(xs), null, a number or a mapping Obj(pairs), the pairs being   *)
(* <<key, value>> in document order.  A parser returns a record whose      *)
(* field `error` tells that it threw.                                      *)
(***************************************************************************)
Null == [kind |-> "null", items |-> <<>>]

Number(n) == [kind |-> "num", items |-> <<n>>]

Obj(pairs) == [kind |-> "obj", items |-> pairs]

NoParams == [labels |-> <<>>, comments |-> <<>>]

EmptyModeMap == [error |-> FALSE, add |-> OnEvents(<<>>), remove |-> OnEvents(<<>>)]

\* mode[modeKey].push(...) for each of the events, unless the direction is `true`
PushEvents(direction, evs) ==
    IF direction.all THEN direction ELSE OnEvents(direction.events \o evs)

\* a token that is not recognized is passed over instead of raising an error
appendLabelMode_IgnoresUnknown(mode, modeKey, modeItems) ==
    IF mode.error THEN mode
    ELSE IF modeKey \in {"add", "remove"}
    THEN IF mode[modeKey].all THEN mode
         ELSE IF modeItems.all THEN [mode EXCEPT ![modeKey] = AllEvents]
         ELSE [mode EXCEPT ![modeKey] =
                  PushEvents(@, SelectSeq(modeItems.events,
                                          LAMBDA t : getModeEvent(t) # "undefined"))]
    ELSE IF getModeEvent(modeKey) # "undefined"
    THEN LET items == IF modeItems.all THEN <<"add", "remove">> ELSE modeItems.events
             adds    == SelectSeq(items, LAMBDA t : t = "add")
             removes == SelectSeq(items, LAMBDA t : t = "remove")
         IN  [mode EXCEPT !.add = PushEvents(@, [i \in 1..Len(adds) |-> modeKey]),
                          !.remove = PushEvents(@, [i \in 1..Len(removes) |-> modeKey])]
    ELSE mode

\* 'add' and 'remove' leave a direction alone that already lists an event
appendLabelMode_KeepsList(mode, modeKey, modeItems) ==
    IF mode.error THEN mode
    ELSE IF modeKey \in {"add", "remove"}
    THEN IF mode[modeKey].all \/ mode[modeKey].events # <<>> THEN mode
         ELSE IF modeItems.all THEN [mode EXCEPT ![modeKey] = AllEvents]
         ELSE IF \E i \in 1..Len(modeItems.events) :
                    getModeEvent(modeItems.events[i]) = "undefined"
         THEN [mode EXCEPT !.error = TRUE]
         ELSE [mode EXCEPT ![modeKey] = PushEvents(@, modeItems.events)]
    ELSE IF getModeEvent(modeKey) # "undefined"
    THEN LET items == IF modeItems.all THEN <<"add", "remove">> ELSE modeItems.events
             adds    == SelectSeq(items, LAMBDA t : t = "add")
             removes == SelectSeq(items, LAMBDA t : t = "remove")
         IN  IF \E i \in 1..Len(items) : items[i] \notin {"add", "remove"}
             THEN [mode EXCEPT !.error = TRUE]
             ELSE [mode EXCEPT !.add = PushEvents(@, [i \in 1..Len(adds) |-> modeKey]),
                               !.remove = PushEvents(@, [i \in 1..Len(removes) |-> modeKey])]
    ELSE [mode EXCEPT !.error = TRUE]

\* modeItems is `true` (AllEvents) or a list (OnEvents)
appendLabelMode(mode, modeKey, modeItems) ==
    IF mode.error THEN mode
    ELSE IF modeKey \in {"add", "remove"}
    THEN IF mode[modeKey].all THEN mode
         ELSE IF modeItems.all THEN [mode EXCEPT ![modeKey] = AllEvents]
         ELSE IF \E i \in 1..Len(modeItems.events) :
                    getModeEvent(modeItems.events[i]) = "undefined"
         THEN [mode EXCEPT !.error = TRUE]
         ELSE [mode EXCEPT ![modeKey] = PushEvents(@, modeItems.events)]
    ELSE IF getModeEvent(modeKey) # "undefined"
    THEN LET items == IF modeItems.all THEN <<"add", "remove">> ELSE modeItems.events
             adds    == SelectSeq(items, LAMBDA t : t = "add")
             removes == SelectSeq(items, LAMBDA t : t = "remove")
         IN  IF \E i \in 1..Len(items) : items[i] \notin {"add", "remove"}
             THEN [mode EXCEPT !.error = TRUE]
             ELSE [mode EXCEPT !.add = PushEvents(@, [i \in 1..Len(adds) |-> modeKey]),
                               !.remove = PushEvents(@, [i \in 1..Len(removes) |-> modeKey])]
    ELSE [mode EXCEPT !.error = TRUE]

RECURSIVE AppendModeTokens(_, _)
\* for (const value of modeItem) appendLabelMode(modeMap, value)
AppendModeTokens(mode, tokens) ==
    IF tokens = <<>> THEN mode
    ELSE CHOOSE done \in
            {AppendModeTokens(next, Tail(tokens)) :
                next \in {appendLabelMode(mode, Head(tokens), AllEvents)}} : TRUE

RECURSIVE AppendModePairs(_, _)
\* for (const key in modeItem): null, a string, a list, or a throw
AppendModePairs(mode, pairs) ==
    IF pairs = <<>> THEN mode
    ELSE LET key   == Head(pairs)[1]
             value == Head(pairs)[2]
         IN  CHOOSE done \in
                 {AppendModePairs(next, Tail(pairs)) :
                     next \in {IF value.kind = "null" THEN appendLabelMode(mode, key, AllEvents)
                               ELSE IF value.kind \in {"str", "arr"}
                               THEN appendLabelMode(mode, key, OnEvents(value.items))
                               ELSE [mode EXCEPT !.error = TRUE]}} : TRUE

parseLabelMode(modeItem) ==
    IF modeItem.kind = "str" THEN appendLabelMode(EmptyModeMap, modeItem.items[1], AllEvents)
    ELSE IF modeItem.kind = "arr" THEN AppendModeTokens(EmptyModeMap, modeItem.items)
    ELSE IF modeItem.kind = "obj" THEN AppendModePairs(EmptyModeMap, modeItem.items)
    ELSE EmptyModeMap

\* the value of the first pair with that key (the keys of a mapping are distinct)
Lookup(pairs, key) ==
    pairs[CHOOSE i \in 1..Len(pairs) : pairs[i][1] = key][2]

HasKey(pairs, key) == \E i \in 1..Len(pairs) : pairs[i][1] = key

parseCommentMode(modeItem) ==
    LET thrown == [error |-> TRUE, type |-> "add", event |-> AllEvents]
    IN  IF modeItem.kind = "str"
        THEN IF modeItem.items[1] \in {"add", "update"}
             THEN [error |-> FALSE, type |-> modeItem.items[1], event |-> AllEvents]
             ELSE thrown
        ELSE IF modeItem.kind # "obj" THEN thrown
        ELSE LET pairs == modeItem.items
                 type  == IF HasKey(pairs, "type") THEN Lookup(pairs, "type") ELSE Str("add")
             IN  IF \E i \in 1..Len(pairs) : pairs[i][1] \notin {"type", "event"} THEN thrown
                 ELSE IF type.kind # "str" THEN thrown
                 ELSE IF type.items[1] \notin {"add", "update"} THEN thrown
                 ELSE IF ~HasKey(pairs, "event")
                 THEN [error |-> FALSE, type |-> type.items[1], event |-> AllEvents]
                 \* getModeEvent(modeItem.event) is undefined for anything but an event name
                 ELSE IF Lookup(pairs, "event").kind # "str" THEN thrown
                 ELSE IF getModeEvent(Lookup(pairs, "event").items[1]) = "undefined" THEN thrown
                 ELSE [error |-> FALSE, type |-> type.items[1],
                       event |-> OnEvents(<<Lookup(pairs, "event").items[1]>>)]

\* key.replace('-', '_')
ReplacedKey(key) ==
    CASE key = "skip-if" -> "skip_if"
      [] key = "remove-if" -> "remove_if"
      [] key = "url-mode" -> "url_mode"
      [] key = "url-list" -> "url_list"
      [] OTHER -> key

\* the keys of configMap
ConfigKeys(appendConfigMap) ==
    appendConfigMap \cup {"name", "content", "author_association", "regexes",
                          "url_mode", "url_list", "skip_if"}

\* itemParams before the loop; contentKind "undefined" stands for content: undefined
InitialItemParams(appendItemParams) ==
    [error |-> FALSE, name |-> "", contentKind |-> "undefined", content |-> Null,
     author_association |-> <<>>, regexes |-> <<>>, skip_if |-> <<>>,
     remove_if |-> <<>>, mode |-> appendItemParams.mode,
     has_url_list |-> FALSE, url_list |-> <<>>, url_mode |-> "undefined"]

\* one iteration of `for (const key in item)`: the first coercion whose condition
\* accepts the value is applied; when none accepts it the field keeps its value
ParseField(itemParams, key, value, appendConfigMap, modeKind) ==
    LET replaced_key == ReplacedKey(key)
        is_str    == value.kind = "str"
        is_strarr == value.kind = "arr"
        parsed    == IF modeKind = "label"
                     THEN parseLabelMode(value) ELSE parseCommentMode(value)
    IN  IF itemParams.error THEN itemParams
        ELSE IF replaced_key \notin ConfigKeys(appendConfigMap)
        THEN [itemParams EXCEPT !.error = TRUE]
        ELSE IF replaced_key = "name"
        THEN IF is_str THEN [itemParams EXCEPT !.name = value.items[1]] ELSE itemParams
        ELSE IF replaced_key = "content"
        THEN IF is_str THEN [itemParams EXCEPT !.contentKind = "str", !.content = value]
             ELSE IF value.kind = "null" THEN [itemParams EXCEPT !.contentKind = "null"]
             ELSE itemParams
        ELSE IF replaced_key = "url_mode"
        THEN IF is_str THEN [itemParams EXCEPT !.url_mode = value.items[1]] ELSE itemParams
        ELSE IF replaced_key = "url_list"
        THEN IF is_str \/ is_strarr
             THEN [itemParams EXCEPT !.has_url_list = TRUE, !.url_list = value.items]
             ELSE itemParams
        ELSE IF replaced_key = "mode"
        THEN IF parsed.error THEN [itemParams EXCEPT !.error = TRUE]
             ELSE [itemParams EXCEPT !.mode = [f \in DOMAIN parsed \ {"error"} |-> parsed[f]]]
        ELSE IF is_str \/ is_strarr
        THEN [itemParams EXCEPT ![replaced_key] = value.items]
        ELSE itemParams

RECURSIVE ParseFields(_, _, _, _)
ParseFields(itemParams, pairs, appendConfigMap, modeKind) ==
    IF pairs = <<>> THEN itemParams
    ELSE CHOOSE done \in
            {ParseFields(next, Tail(pairs), appendConfigMap, modeKind) :
                next \in {ParseField(itemParams, Head(pairs)[1], Head(pairs)[2],
                                     appendConfigMap, modeKind)}} : TRUE

\* appendConfigMap: the keys the caller adds; appendItemParams: its defaults and
\* which mode parser it hands over
parseRule(item, appendConfigMap, appendItemParams) ==
    IF item.kind # "obj" THEN [InitialItemParams(appendItemParams) EXCEPT !.error = TRUE]
    ELSE CHOOSE done \in
            {IF itemParams.error THEN itemParams
             ELSE IF itemParams.name = "" THEN [itemParams EXCEPT !.error = TRUE]
             ELSE itemParams :
                itemParams \in {ParseFields(InitialItemParams(appendItemParams), item.items,
                                            appendConfigMap, appendItemParams.modeKind)}} : TRUE

\* an omitted content is left empty instead of taking the name
parseLabelRule_ContentNotDefaulted(item, default_mode) ==
    CHOOSE done \in
        {[error |-> itemParams.error,
          rule  |-> LabelRule(itemParams.name,
                              IF itemParams.contentKind = "str" THEN itemParams.content.items[1]
                              ELSE "",
                              itemParams.regexes, itemParams.author_association,
                              itemParams.mode, itemParams.skip_if, itemParams.remove_if)] :
            itemParams \in {parseRule(item, {"remove_if", "mode"},
                                      [mode |-> default_mode, modeKind |-> "label"])}} : TRUE

\* a label's content is a string: '' for null, the name when omitted
parseLabelRule(item, default_mode) ==
    CHOOSE done \in
        {[error |-> itemParams.error,
          rule  |-> LabelRule(itemParams.name,
                              IF itemParams.contentKind = "str" THEN itemParams.content.items[1]
                              ELSE IF itemParams.contentKind = "null" THEN ""
                              ELSE itemParams.name,
                              itemParams.regexes, itemParams.author_association,
                              itemParams.mode, itemParams.skip_if, itemParams.remove_if)] :
            itemParams \in {parseRule(item, {"remove_if", "mode"},
                                      [mode |-> default_mode, modeKind |-> "label"])}} : TRUE

\* a comment's content is a sequence of tokens: empty for null, the name when omitted
parseCommentRule(item, default_mode) ==
    CHOOSE done \in
        {[error |-> itemParams.error,
          rule  |-> CommentRule(itemParams.name,
                                IF itemParams.contentKind = "str" THEN itemParams.content.items[1]
                                ELSE IF itemParams.contentKind = "null" THEN <<>>
                                ELSE <<itemParams.name>>,
                                itemParams.regexes, itemParams.has_url_list,
                                itemParams.url_list, itemParams.url_mode,
                                itemParams.author_association, itemParams.mode,
                                itemParams.skip_if)] :
            itemParams \in {parseRule(item, {"mode"},
                                      [mode |-> default_mode, modeKind |-> "comment"])}} : TRUE

\* parseAllRules throws unless default-mode is given or syncLabels is 0 or 1
DefaultModeKnown(configObject, sync) ==
    configObject.has_default_mode \/ (~sync.nan /\ sync.v \in {0, 1})

\* the configured default-mode is not looked at
labelDefaultMode_IgnoresConfig(configObject, sync) ==
    IF ~sync.nan /\ sync.v = 1 THEN [error |-> FALSE] @@ SyncMode
    ELSE [error |-> FALSE] @@ AddOnlyMode

\* the two defaults the wrong way round
labelDefaultMode_Swapped(configObject, sync) ==
    IF configObject.has_default_mode THEN parseLabelMode(configObject.default_mode)
    ELSE IF sync.v = 1 THEN [error |-> FALSE] @@ AddOnlyMode
    ELSE [error |-> FALSE] @@ SyncMode

labelDefaultMode(configObject, sync) ==
    IF configObject.has_default_mode THEN parseLabelMode(configObject.default_mode)
    ELSE IF sync.v = 1 THEN [error |-> FALSE] @@ SyncMode
    ELSE [error |-> FALSE] @@ AddOnlyMode

parseLabelRules(configObject, default_mode) ==
    [i \in 1..Len(configObject) |-> parseLabelRule(configObject[i], default_mode)]

parseCommentRules(configObject, default_mode) ==
    [i \in 1..Len(configObject) |-> parseCommentRule(configObject[i], default_mode)]

\* the return value of parseAllRules once both lists are parsed
ParsedRules(labels, comments) ==
    IF \/ \E i \in 1..Len(labels) : labels[i].error
       \/ \E i \in 1..Len(comments) : comments[i].error
    THEN [error |-> TRUE, params |-> NoParams]
    ELSE [error |-> FALSE,
          params |-> [labels   |-> [i \in 1..Len(labels) |-> labels[i].rule],
                      comments |-> [i \in 1..Len(comments) |-> comments[i].rule]]]

parseAllRules(configObject, sync) ==
    IF ~DefaultModeKnown(configObject, sync) THEN [error |-> TRUE, params |-> NoParams]
    ELSE CHOOSE done \in
            {IF default_mode.error THEN [error |-> TRUE, params |-> NoParams]
             ELSE CHOOSE rules \in
                     {ParsedRules(labels, comments) :
                         labels \in {parseLabelRules(configObject.labels,
                                        [f \in {"add", "remove"} |-> default_mode[f]])},
                         comments \in {parseCommentRules(configObject.comments,
                                          CommentMode("add", AllEvents))}} : TRUE :
                default_mode \in {labelDefaultMode(configObject, sync)}} : TRUE

(***************************************************************************)
(* The backend requests of run().                                          *)
(***************************************************************************)
Call(op, target, arg) == [op |-> op, target |-> target, arg |-> arg]

MutatingOps == {"addLabels", "removeLabel", "createComment", "updateComment", "updateIssue"}

\* addLabels(client, issue, ['fixed']) for each extracted issue
FixedLabelCalls(issues) ==
    [i \in 1..Len(issues) |-> Call("addLabels", issues[i], <<"fixed">>)]

\* compares the two timestamps the wrong way round
NotBeforeGate_Reversed(nb, created) ==
    IF Truthy(nb)
    THEN IF created.nan THEN "throw"
         ELSE IF created.v > nb.v THEN "exit"
         ELSE "pass"
    ELSE "pass"

\* the not-before gate of run: "pass", "exit" (return) or "throw"
NotBeforeGate(nb, created) ==
    IF Truthy(nb)
    THEN IF created.nan THEN "throw"
         ELSE IF created.v < nb.v THEN "exit"
         ELSE "pass"
    ELSE "pass"

\* commentRuleAnalyze asks the backend to render the content for a URL rule it reaches
RenderNeeded(rules, content, aa, ev, linkSeq) ==
    \E k \in 1..Len(rules) :
        /\ CommentRuleLoop(rules, k, content, aa, ev, linkSeq).trace[k] \notin {"skip", "inert"}
        /\ checkAuthorAssociation(aa, rules[k].author_association)
        /\ Len(rules[k].regexes) = 0
        /\ rules[k].has_url_list /\ rules[k].url_mode \in {"allow_only", "deny"}

\* removes the labels of the remove list whatever sync-labels says
DispatchCalls_RemovesWithoutSync(issue, labelResult, commentResult, seen, sync, ev, cid) ==
    LET addLabelItems == SelectSeq(labelResult.add, LAMBDA label : label \notin seen)
        removable     == SelectSeq(labelResult.remove, LAMBDA label : label \in seen)
    IN  (IF Len(addLabelItems) > 0 THEN <<Call("addLabels", issue, addLabelItems)>> ELSE <<>>)
        \o [i \in 1..Len(removable) |-> Call("removeLabel", issue, removable[i])]
        \o [i \in 1..Len(commentResult.add) |-> Call("createComment", issue, commentResult.add[i])]
        \o (IF ev = "issue_comment"
            THEN IF cid = 0 THEN <<>>
                 ELSE [i \in 1..Len(commentResult.update) |->
                          Call("updateComment", cid, commentResult.update[i])]
            ELSE [i \in 1..Len(commentResult.update) |->
                     Call("updateIssue", issue, commentResult.update[i])])

\* the requests run issues once the rules and the current labels are known
DispatchCalls(issue, labelResult, commentResult, seen, sync, ev, cid) ==
    LET addLabelItems == SelectSeq(labelResult.add, LAMBDA label : label \notin seen)
        removable     == SelectSeq(labelResult.remove, LAMBDA label : label \in seen)
    IN  (IF Len(addLabelItems) > 0 THEN <<Call("addLabels", issue, addLabelItems)>> ELSE <<>>)
        \o (IF Truthy(sync)
            THEN [i \in 1..Len(removable) |-> Call("removeLabel", issue, removable[i])]
            ELSE <<>>)
        \o [i \in 1..Len(commentResult.add) |-> Call("createComment", issue, commentResult.add[i])]
        \o (IF ev = "issue_comment"
            THEN IF cid = 0 THEN <<>>
                 ELSE [i \in 1..Len(commentResult.update) |->
                          Call("updateComment", cid, commentResult.update[i])]
            ELSE [i \in 1..Len(commentResult.update) |->
                     Call("updateIssue", issue, commentResult.update[i])])

(***************************************************************************)
(* run() (dist/main.js), cut at its awaits.                                *)
(***************************************************************************)
\* RunStart without the `else` of the push branch: a push goes on to load the rules
RunStart_PushFallsThrough ==
    /\ program = "run"
    /\ pc = "start"
    /\ IF event_name \notin EventTypes
       THEN /\ failed' = TRUE
            /\ pc' = "end"
            /\ UNCHANGED <<issue_number, calls>>
       ELSE IF event_name = "push"
       THEN /\ issue_number' = getIssueNumbersFromMessage(joinMessages(commits))
            /\ calls' = Append(calls \o FixedLabelCalls(issue_number'), Call("getContent", 0, <<>>))
            /\ pc' = "end"
            /\ UNCHANGED failed
       ELSE IF NotBeforeGate(notBefore, created_at) = "throw"
       THEN /\ failed' = TRUE
            /\ pc' = "end"
            /\ UNCHANGED <<issue_number, calls>>
       ELSE IF NotBeforeGate(notBefore, created_at) = "exit"
       THEN /\ pc' = "end"
            /\ UNCHANGED <<issue_number, calls, failed>>
       ELSE /\ calls' = Append(calls, Call("getContent", 0, <<>>))
            /\ pc' = "loading"
            /\ UNCHANGED <<issue_number, failed>>
    /\ UNCHANGED <<analysisVars, notBefore, syncLabels, created_at, comment_id, includeTitle,
                   title, commits, config, issueLabels, params, warnings>>

\* up to the first await: the event, the push branch, the not-before gate
RunStart ==
    /\ program = "run"
    /\ pc = "start"
    /\ IF event_name \notin EventTypes
       THEN /\ failed' = TRUE
            /\ pc' = "end"
            /\ UNCHANGED <<issue_number, calls>>
       ELSE IF event_name = "push"
       THEN /\ issue_number' = getIssueNumbersFromMessage(joinMessages(commits))
            /\ calls' = calls \o FixedLabelCalls(issue_number')
            /\ pc' = "end"
            /\ UNCHANGED failed
       ELSE IF NotBeforeGate(notBefore, created_at) = "throw"
       THEN /\ failed' = TRUE
            /\ pc' = "end"
            /\ UNCHANGED <<issue_number, calls>>
       ELSE IF NotBeforeGate(notBefore, created_at) = "exit"
       THEN /\ pc' = "end"
            /\ UNCHANGED <<issue_number, calls, failed>>
       ELSE /\ calls' = Append(calls, Call("getContent", 0, <<>>))
            /\ pc' = "loading"
            /\ UNCHANGED <<issue_number, failed>>
    /\ UNCHANGED <<analysisVars, notBefore, syncLabels, created_at, comment_id, includeTitle,
                   title, commits, config, issueLabels, params, warnings>>

\* the configuration arrived: loadRules returns or throws, then getCurrentLabels is awaited
RunLoaded ==
    /\ program = "run"
    /\ pc = "loading"
    /\ IF ~config.readable
       THEN /\ failed' = TRUE
            /\ pc' = "end"
            /\ UNCHANGED <<params, calls>>
       ELSE \E parsed \in {parseAllRules(config, syncLabels)} :
               IF parsed.error
               THEN /\ failed' = TRUE
                    /\ pc' = "end"
                    /\ UNCHANGED <<params, calls>>
               ELSE /\ params' = parsed.params
                    /\ calls' = Append(calls, Call("listLabelsOnIssue", issue_number[1], <<>>))
                    /\ pc' = "listing"
                    /\ UNCHANGED failed
    /\ UNCHANGED <<analysisVars, notBefore, syncLabels, created_at, comment_id, includeTitle,
                   title, commits, config, issueLabels, issue_number, warnings>>

\* the labels arrived (or the call failed: an empty set): both analyses, then every request
RunListed ==
    /\ program = "run"
    /\ pc = "listing"
    /\ \E listed \in BOOLEAN :
          LET seen          == IF listed THEN issueLabels ELSE {}
              labelContent  == (IF ~includeTitle.nan /\ includeTitle.v = 1
                                THEN title \o <<"NL", "NL">> ELSE <<>>) \o issueContent
              labelResult   == labelRuleAnalyze(params.labels, labelContent,
                                                author_association, event_name)
              commentResult == commentRuleAnalyze(params.comments, issueContent,
                                                  author_association, event_name, Distinct(links))
              render        == IF RenderNeeded(params.comments, issueContent, author_association,
                                               event_name, Distinct(links))
                               THEN <<Call("render", 0, issueContent)>> ELSE <<>>
          IN  /\ calls' = calls \o render
                          \o DispatchCalls(issue_number[1], labelResult, commentResult, seen,
                                           syncLabels, event_name, comment_id)
              /\ failed' = (event_name = "issue_comment" /\ comment_id = 0)
              /\ warnings' = IF listed THEN warnings ELSE warnings \cup {Len(calls)}
    /\ pc' = "end"
    /\ UNCHANGED <<analysisVars, notBefore, syncLabels, created_at, comment_id, includeTitle,
                   title, commits, config, issueLabels, issue_number, params>>

\* a request that run does not wait for: it settles after run has returned
Unawaited(i) == calls[i].op \in MutatingOps

\* a failed request makes the run fail
RunSettle_FailurePropagates ==
    /\ program = "run"
    /\ pc = "end"
    /\ \E rejected \in {{}} \cup {{i} : i \in {j \in 1..Len(calls) : Unawaited(j)}} :
          /\ warnings' = warnings \cup rejected
          /\ failed' = (failed \/ rejected # {})
    /\ pc' = "settled"
    /\ UNCHANGED <<analysisVars, notBefore, syncLabels, created_at, comment_id, includeTitle,
                   title, commits, config, issueLabels, issue_number, params, calls>>

\* the unawaited requests settle: all succeed, or one of them is rejected, which its
\* wrapper catches and reports with core.warning
RunSettle ==
    /\ program = "run"
    /\ pc = "end"
    /\ \E rejected \in {{}} \cup {{i} : i \in {j \in 1..Len(calls) : Unawaited(j)}} :
          warnings' = warnings \cup rejected
    /\ pc' = "settled"
    /\ UNCHANGED <<analysisVars, notBefore, syncLabels, created_at, comment_id, includeTitle,
                   title, commits, config, issueLabels, issue_number, params, calls, failed>>

\* the run variables while no run is modelled
RunIdle ==
    /\ notBefore = NaN /\ syncLabels = Num(1) /\ created_at = NaN /\ comment_id = 0
    /\ includeTitle = Num(0) /\ title = <<>> /\ commits = <<>>
    /\ config = [readable |-> FALSE]
    /\ issueLabels = {} /\ issue_number = <<>> /\ params = NoParams
    /\ calls = <<>> /\ failed = FALSE /\ warnings = {}

\* a rule of the document: its fields in document order
Item(pairs) == Obj(pairs)

Config(has_default_mode, default_mode, labels, comments) ==
    [readable |-> TRUE, has_default_mode |-> has_default_mode, default_mode |-> default_mode,
     labels |-> labels, comments |-> comments]

\* documents every rule of which parseRule accepts
WellFormedConfigs ==
    { Config(FALSE, Null,
             << Item(<< <<"name", Str("A")>>, <<"content", Str("x")>>,
                        <<"regexes", Str(<<"a">>)>> >>),
                Item(<< <<"name", Str("B")>> >>),
                Item(<< <<"name", Str("C")>>, <<"content", Null>>,
                        <<"skip-if", Arr(<<"A">>)>> >>) >>,
             << Item(<< <<"name", Str("A")>>, <<"content", Str(<<"c">>)>>,
                        <<"regexes", Arr(<< <<"a">> >>)>> >>) >>),
      Config(TRUE, Obj(<< <<"issues", Null>> >>),
             << Item(<< <<"name", Str("A")>>, <<"content", Str("x")>>,
                        <<"regexes", Arr(<< <<"b">> >>)>> >>),
                Item(<< <<"name", Str("B")>>, <<"remove-if", Str("A")>>,
                        <<"mode", Arr(<<"add", "remove">>)>> >>) >>,
             << Item(<< <<"name", Str("B")>>, <<"content", Str(<<"d", "${body}">>)>>,
                        <<"regexes", Str(<<"a">>)>>,
                        <<"mode", Obj(<< <<"type", Str("update")>> >>)>> >>),
                Item(<< <<"name", Str("A")>>, <<"content", Str(<<"c">>)>>,
                        <<"url_list", Arr(<<StrPattern(<<"g">>)>>)>>,
                        <<"url_mode", Str("deny")>> >>) >>),
      Config(TRUE, Obj(<< <<"pull_request", Arr(<<"add">>)>>, <<"remove", Str("issues")>> >>),
             << Item(<< <<"name", Str("x")>>, <<"regexes", Str(<<"a">>)>> >>) >>,
             << Item(<< <<"name", Str("B")>>, <<"content", Str(<<"c">>)>>,
                        <<"regexes", Str(<<"b">>)>> >>) >>) }

\* documents with a rule that has an unknown field, no name, an empty name, or a
\* value of a type no coercion of its field accepts
MalformedConfigs ==
    { Config(FALSE, Null,
             << Item(<< <<"name", Str("A")>>, <<"bogus", Str("x")>> >>) >>, <<>>),
      Config(FALSE, Null,
             << Item(<< <<"content", Str("x")>>, <<"regexes", Str(<<"a">>)>> >>) >>, <<>>),
      Config(TRUE, Str("add"),
             <<>>, << Item(<< <<"name", Str("")>>, <<"content", Str(<<"c">>)>> >>) >>),
      Config(FALSE, Null,
             << Item(<< <<"name", Str("A")>>, <<"content", Str("x")>>,
                        <<"regexes", Number(5)>> >>),
                Item(<< <<"name", Str("B")>>, <<"content", Null>>,
                        <<"skip-if", Number(5)>> >>) >>,
             <<>>) }

RunConfigs == {[readable |-> FALSE]} \cup WellFormedConfigs \cup MalformedConfigs

CommitMessages ==
    { <<"Fix", " ", "#", "1", "2">>,
      <<"Close", " ", "x", "/issues/", "3", "4">>,
      <<"x", " ", "fix", " ", "#", "5">>,
      <<"x">> }

RunEventNames ==
    {"issues", "pull_request", "pull_request_target", "issue_comment", "push", "watch"}

InitRun ==
    /\ program = "run"
    /\ itemMap = <<>>
    /\ result = NoResult
    /\ pc = "start"
    /\ event_name \in RunEventNames
    /\ notBefore \in {NaN, Num(0), Num(2)}
    /\ title = <<"b">>
    /\ IF event_name = "push"
       THEN /\ commits \in SeqsUpTo(CommitMessages, MaxCommits)
            /\ created_at = Num(0)
            /\ issueContent = <<>> /\ author_association = <<>>
            /\ syncLabels = Num(1) /\ includeTitle = Num(0) /\ comment_id = 0
            /\ config \in RunConfigs /\ issueLabels = {} /\ links = <<>>
            /\ issue_number = <<>>
       ELSE /\ commits = <<>>
            /\ created_at \in {NaN, Num(1), Num(3)}
            /\ issueContent \in Contents
            /\ author_association = NONE
            /\ syncLabels \in {NaN, Num(0), Num(1), Num(2)}
            /\ includeTitle \in {Num(0), Num(1)}
            /\ comment_id \in (IF event_name = "issue_comment" THEN {0, 7} ELSE {0})
            /\ config \in RunConfigs
            /\ issueLabels \in {{}, {"x"}, {"x", "B"}}
            /\ links \in {<<>>, <<LinkG>>}
            /\ issue_number = <<1>>
    /\ params = NoParams
    /\ calls = <<>>
    /\ failed = FALSE
    /\ warnings = {}

NextRun == RunStart \/ RunLoaded \/ RunListed \/ RunSettle

SpecRun == InitRun /\ [][NextRun]_vars

(***************************************************************************)
(* SpecAnalyze: one analysis pass: a label pass of dist/main.js, a pass of *)
(* itemAnalyze of src/main.ts, or a comment pass of dist/main.js.          *)
(***************************************************************************)
InitAnalyze ==
    /\ program \in {"dist", "ts", "comment"}
    /\ itemMap \in (IF program = "dist" THEN SeqsUpTo(LabelRuleUniverse, MaxRules)
                    ELSE IF program = "ts" THEN SeqsUpTo(TsRuleUniverse, MaxRules)
                    ELSE SeqsUpTo(CommentRuleUniverse, MaxCommentRules))
    /\ issueContent \in Contents
    /\ author_association \in Associations
    /\ event_name \in RuleEvents
    /\ links \in (IF program = "comment" THEN LinkLists ELSE {<<>>})
    /\ pc = "start"
    /\ result = NoResult
    /\ RunIdle

LabelPass ==
    /\ program = "dist"
    /\ pc = "start"
    /\ result' = labelRuleAnalyze(itemMap, issueContent, author_association, event_name)
    /\ pc' = "done"
    /\ UNCHANGED <<program, itemMap, issueContent, author_association, event_name, links>>
    /\ UNCHANGED runVars

ItemPass ==
    /\ program = "ts"
    /\ pc = "start"
    /\ result' = itemAnalyze(itemMap, issueContent, author_association, event_name)
    /\ pc' = "done"
    /\ UNCHANGED <<program, itemMap, issueContent, author_association, event_name, links>>
    /\ UNCHANGED runVars

CommentPass ==
    /\ program = "comment"
    /\ pc = "start"
    /\ result' = commentRuleAnalyze(itemMap, issueContent, author_association, event_name,
                                    Distinct(links))
    /\ pc' = "done"
    /\ UNCHANGED <<program, itemMap, issueContent, author_association, event_name, links>>
    /\ UNCHANGED runVars

NextAnalyze == LabelPass \/ ItemPass \/ CommentPass

SpecAnalyze == InitAnalyze /\ [][NextAnalyze]_vars

(***************************************************************************)
(* Properties of an analysis pass.                                         *)
(***************************************************************************)
\* the loop state of the label pass after its first k rules
LabelLoopAt(k) ==
    IF program = "dist"
    THEN LabelRuleLoop(itemMap, k, issueContent, author_association, event_name)
    ELSE ItemLoop(itemMap, k, issueContent, author_association, event_name)

CommentLoopAt(k) ==
    CommentRuleLoop(itemMap, k, issueContent, author_association, event_name, Distinct(links))

\* what rule k contributed: the accumulators before and after it are the same
Untouched(k) ==
    IF program = "comment"
    THEN LET a == CommentLoopAt(k - 1)
             b == CommentLoopAt(k)
         IN  /\ a.addItems = b.addItems
             /\ a.updateItems = b.updateItems
             /\ a.addItemNames = b.addItemNames
    ELSE LET a == LabelLoopAt(k - 1)
             b == LabelLoopAt(k)
         IN  /\ a.addItems = b.addItems
             /\ a.removeItems = b.removeItems
             /\ a.addItemNames = b.addItemNames

\* an earlier rule named in `names` took its add branch
NamesFired(names, k) ==
    \E i \in 1..(k - 1) : Includes(names, itemMap[i].name) /\ result.trace[i] = "add"

RuleMatches(k) ==
    /\ checkAuthorAssociation(author_association, itemMap[k].author_association)
    /\ checkRegexes(issueContent, itemMap[k].regexes)

\* C1: the add list and the remove list returned by labelRuleAnalyze and by
\* itemAnalyze share no string; a content decided both ways is in the remove list only.
C1_AddRemoveDisjoint ==
    (pc = "done" /\ program \in {"dist", "ts"}) =>
        LET st == LabelLoopAt(Len(itemMap))
        IN  /\ Range(result.add) \cap Range(result.remove) = {}
            /\ \A x \in Range(st.addItems) \cap Range(st.removeItems) :
                  x \in Range(result.remove) /\ x \notin Range(result.add)

\* a content added by one rule, removed by a later one and added again by a third
C1_Witness ==
    /\ pc = "done" /\ program = "dist" /\ Len(itemMap) = 3
    /\ result.trace = <<"add", "remove", "add">>
    /\ itemMap[1].content = itemMap[2].content
    /\ itemMap[3].content = itemMap[2].content
    /\ Includes(result.remove, itemMap[1].content)
    /\ ~Includes(result.add, itemMap[1].content)

\* C2: in labelRuleAnalyze and commentRuleAnalyze a rule whose skip_if names an
\* earlier rule that took its add branch contributes nothing: the add, update and
\* remove lists and the registered names are as they were before it.
C2_SkipIfSuppresses ==
    (pc = "done" /\ program \in {"dist", "comment"}) =>
        \A k \in 1..Len(itemMap) :
            NamesFired(itemMap[k].skip_if, k) =>
                result.trace[k] = "skip" /\ Untouched(k)

\* a skipped label rule whose own patterns match with add enabled
C2_Witness ==
    /\ pc = "done" /\ program = "dist"
    /\ \E k \in 1..Len(itemMap) :
          /\ NamesFired(itemMap[k].skip_if, k)
          /\ RuleMatches(k)
          /\ ModeEnables(itemMap[k].mode.add, event_name)
          /\ itemMap[k].content # ""
          /\ ~Includes(result.add, itemMap[k].content)

\* C3: in labelRuleAnalyze a rule whose remove_if names an earlier rule that took
\* its add branch, and whose skip_if names none, has its non-empty content in the
\* returned remove list and registers no name, whether or not its patterns match.
C3_RemoveIfForces ==
    (pc = "done" /\ program = "dist") =>
        \A k \in 1..Len(itemMap) :
            (NamesFired(itemMap[k].remove_if, k) /\ ~NamesFired(itemMap[k].skip_if, k)) =>
                /\ result.trace[k] = "remove_if"
                /\ itemMap[k].content # "" => Includes(result.remove, itemMap[k].content)
                /\ LabelLoopAt(k).addItemNames = LabelLoopAt(k - 1).addItemNames
                /\ LabelLoopAt(k).addItems = LabelLoopAt(k - 1).addItems

\* a force-removed rule whose own patterns match with add enabled
C3_Witness ==
    /\ pc = "done" /\ program = "dist"
    /\ \E k \in 1..Len(itemMap) :
          /\ NamesFired(itemMap[k].remove_if, k)
          /\ ~NamesFired(itemMap[k].skip_if, k)
          /\ RuleMatches(k)
          /\ Len(itemMap[k].regexes) > 0
          /\ ModeEnables(itemMap[k].mode.add, event_name)
          /\ itemMap[k].content # ""
          /\ Includes(result.remove, itemMap[k].content)
          /\ itemMap[k].name \notin result.names

Inert(k) ==
    IF program = "dist"
    THEN /\ ~ModeEnables(itemMap[k].mode.add, event_name)
         /\ ~ModeEnables(itemMap[k].mode.remove, event_name)
    ELSE /\ ~checkEvent(event_name, itemMap[k].mode, "add")
         /\ ~checkEvent(event_name, itemMap[k].mode, "remove")

\* C4 as claimed: a label rule whose mode enables neither add nor remove for the
\* event appends nothing to the add list or the remove list and registers no name.
C4_InertRule ==
    (pc = "done" /\ program \in {"dist", "ts"}) =>
        \A k \in 1..Len(itemMap) : Inert(k) => Untouched(k)

\* C4 amended: such a rule never appends to the add list and never registers its
\* name; in labelRuleAnalyze it appends its non-empty content to the remove list
\* exactly when its remove_if names an added rule and its skip_if names none; in
\* itemAnalyze it appends nothing at all.
C4_InertButRemoveIf ==
    (pc = "done" /\ program \in {"dist", "ts"}) =>
        \A k \in 1..Len(itemMap) :
            Inert(k) =>
                LET a == LabelLoopAt(k - 1)
                    b == LabelLoopAt(k)
                    forced == /\ program = "dist"
                              /\ NamesFired(itemMap[k].remove_if, k)
                              /\ ~NamesFired(itemMap[k].skip_if, k)
                IN  /\ a.addItems = b.addItems
                    /\ a.addItemNames = b.addItemNames
                    /\ b.removeItems = IF forced THEN PushNew(a.removeItems, itemMap[k].content)
                                       ELSE a.removeItems

\* an inert rule of labelRuleAnalyze whose content reaches the remove list
C4_Witness ==
    /\ pc = "done" /\ program = "dist"
    /\ \E k \in 1..Len(itemMap) :
          /\ Inert(k)
          /\ NamesFired(itemMap[k].remove_if, k)
          /\ LabelLoopAt(k).removeItems = Append(LabelLoopAt(k - 1).removeItems, itemMap[k].content)
          /\ Includes(result.remove, itemMap[k].content)

\* C5: every list an analysis pass returns holds each string at most once.
C5_NoDuplicates ==
    pc = "done" =>
        /\ NoDuplicates(result.add)
        /\ NoDuplicates(result.remove)
        /\ NoDuplicates(result.update)

Injections(n) == {f \in [1..n -> 1..n] : \A i, j \in 1..n : f[i] = f[j] => i = j}

Permuted(rules, f) == [i \in 1..Len(rules) |-> rules[f[i]]]

NoDependencies(rules) ==
    \A i \in 1..Len(rules) : rules[i].skip_if = <<>> /\ rules[i].remove_if = <<>>

\* C6: without skip_if and remove_if, labelRuleAnalyze returns the same set of add
\* contents and the same set of remove contents for every permutation of the rules.
C6_OrderIndependent ==
    (pc = "done" /\ program = "dist" /\ NoDependencies(itemMap)) =>
        \A f \in Injections(Len(itemMap)) :
            LET r == labelRuleAnalyze(Permuted(itemMap, f), issueContent,
                                      author_association, event_name)
            IN  /\ Range(r.add) = Range(result.add)
                /\ Range(r.remove) = Range(result.remove)

\* three rules: one adds a content, a later one removes it, another adds a second
\* content that is returned; some permutation puts the removing rule first
C6_Witness ==
    /\ pc = "done" /\ program = "dist" /\ NoDependencies(itemMap)
    /\ Len(itemMap) = 3
    /\ Len(result.add) >= 1 /\ Len(result.remove) >= 1
    /\ \E i, j \in 1..3 :
          /\ i < j /\ result.trace[i] = "add" /\ result.trace[j] = "remove"
          /\ itemMap[i].content = itemMap[j].content
          /\ \E f \in Injections(3) : f[1] = j /\ f[2] = i

UrlModeRule(k) ==
    /\ Len(itemMap[k].regexes) = 0
    /\ itemMap[k].has_url_list
    /\ itemMap[k].url_mode \in {"allow_only", "deny"}

\* a link matches a pattern: the whole link, or every named URL field
LinkMatches(link, pattern) ==
    \A f \in 1..Len(pattern.fields) :
        Occurs(UrlField(link, pattern.fields[f][1]), pattern.fields[f][2])

LinkHits(link, rule) ==
    IF rule.url_mode = "deny"
    THEN \E p \in 1..Len(rule.url_list) : LinkMatches(link, rule.url_list[p])
    ELSE \A p \in 1..Len(rule.url_list) : ~LinkMatches(link, rule.url_list[p])

\* C7: a comment rule in URL mode that is reached with an accepted author takes
\* its add or update branch iff some link of the content hits: under deny it
\* matches one of the patterns, under allow_only it matches none of them.
C7_UrlModeCondition ==
    (pc = "done" /\ program = "comment") =>
        \A k \in 1..Len(itemMap) :
            ( /\ UrlModeRule(k)
              /\ result.trace[k] \notin {"skip", "inert"}
              /\ checkAuthorAssociation(author_association, itemMap[k].author_association) )
            => ( result.trace[k] \in {"add", "update"}
                 <=> \E l \in 1..Len(links) : LinkHits(links[l], itemMap[k]) )

(***************************************************************************)
(* Properties of run().                                                    *)
(***************************************************************************)
RECURSIVE AllReferences(_)
\* the numbers of all the references of a text, in order of occurrence
AllReferences(messages) ==
    LET matchResult == Match(messages)
    IN  IF matchResult.found
        THEN <<parseInt(matchResult.digits)>>
             \o AllReferences(SubSeq(messages, matchResult.last + 1, Len(messages)))
        ELSE <<>>

\* C8: for a push the extracted issue numbers are the numbers of all the references
\* in the concatenated commit messages, in order, a reference at the first character
\* of the first message included.
C8_AllReferencesExtracted ==
    (program = "run" /\ event_name = "push" /\ pc \in {"end", "settled"}) =>
        issue_number = AllReferences(joinMessages(commits))

\* C9: a push run requests addLabels with the single label 'fixed' once for each
\* extracted issue number, in order, and issues no other backend request.
C9_PushOnlyLabelsFixed ==
    (program = "run" /\ event_name = "push") =>
        /\ Len(calls) = Len(issue_number)
        /\ \A i \in 1..Len(calls) :
              /\ calls[i].op = "addLabels"
              /\ calls[i].target = issue_number[i]
              /\ calls[i].arg = <<"fixed">>
        /\ params = NoParams
        /\ pc \in {"start", "end", "settled"}

\* a finished push run that labelled two issues while a configuration was there to load
C9_Witness ==
    /\ program = "run" /\ event_name = "push" /\ pc = "end"
    /\ Len(issue_number) = 2 /\ issue_number[1] # issue_number[2]
    /\ Len(calls) = 2
    /\ config.readable

CreatedBeforeNotBefore == ~notBefore.nan /\ ~created_at.nan /\ created_at.v < notBefore.v

\* C10 as claimed: when not-before is a valid timestamp and the event was created
\* before it, the run dispatches no label and no comment request, whatever the event.
C10_NotBeforeShortCircuits ==
    (program = "run" /\ CreatedBeforeNotBefore) =>
        \A i \in 1..Len(calls) : calls[i].op \notin MutatingOps

\* C10 amended: for the events issues, pull_request, pull_request_target and
\* issue_comment, when not-before is a valid timestamp and the issue, pull request
\* or comment was created before it, the run ends at once: no backend request at
\* all and no failure.  A push is not subject to not-before.
C10_NotBeforeShortCircuitsIssue ==
    (program = "run" /\ event_name \in EventTypes \ {"push"} /\ CreatedBeforeNotBefore) =>
        /\ calls = <<>>
        /\ ~failed
        /\ pc \in {"start", "end", "settled"}

\* a run on an issue created before not-before that has ended, with rules to apply
C10_Witness ==
    /\ program = "run" /\ event_name = "issues" /\ pc = "end"
    /\ CreatedBeforeNotBefore
    /\ config.readable /\ Len(config.labels) > 0
    /\ calls = <<>>

(***************************************************************************)
(* Properties of the configuration load.                                   *)
(***************************************************************************)
\* the run asked for the configuration and the answer has been handled
LoadDone ==
    /\ program = "run" /\ config.readable /\ pc \in {"listing", "end", "settled"}
    /\ \E i \in 1..Len(calls) : calls[i].op = "getContent"

\* the rules were parsed: the run went on to list the labels of the issue
LoadSucceeded == LoadDone /\ \E i \in 1..Len(calls) : calls[i].op = "listLabelsOnIssue"

ListFields == {"regexes", "author_association", "skip_if", "remove_if"}

HasField(item, field) == \E i \in 1..Len(item.items) : ReplacedKey(item.items[i][1]) = field

Field(item, field) ==
    item.items[CHOOSE i \in 1..Len(item.items) : ReplacedKey(item.items[i][1]) = field][2]

UnknownField(item, known) == \E i \in 1..Len(item.items) : ReplacedKey(item.items[i][1]) \notin known

MissingName(item) ==
    \/ ~HasField(item, "name")
    \/ Field(item, "name").kind = "str" /\ Field(item, "name").items[1] = ""

WrongType(item) ==
    \E f \in ListFields : HasField(item, f) /\ Field(item, f).kind \notin {"str", "arr"}

LabelFields ==
    {"name", "content", "author_association", "regexes", "url_mode", "url_list",
     "skip_if", "remove_if", "mode"}

Malformed(configObject) ==
    \/ \E i \in 1..Len(configObject.labels) :
          LET item == configObject.labels[i]
          IN  UnknownField(item, LabelFields) \/ MissingName(item) \/ WrongType(item)
    \/ \E i \in 1..Len(configObject.comments) :
          LET item == configObject.comments[i]
          IN  UnknownField(item, LabelFields \ {"remove_if"}) \/ MissingName(item)
              \/ WrongType(item)

\* C11: a rule with an unknown field, a missing or empty name, or a known field
\* whose value no coercion accepts makes the load fail: the run is failed, no rule
\* list is produced and no mutating request is issued.
C11_MalformedRuleFailsLoad ==
    (LoadDone /\ Malformed(config)) =>
        /\ pc \in {"end", "settled"} /\ failed
        /\ params = NoParams
        /\ \A i \in 1..Len(calls) : calls[i].op \notin MutatingOps

\* the list a list-valued field is parsed to: the list itself, a bare string as a
\* one-element list, the empty list when the field is absent or not accepted
ExpectedList(item, field) ==
    IF HasField(item, field) /\ Field(item, field).kind = "arr" THEN Field(item, field).items
    ELSE IF HasField(item, field) /\ Field(item, field).kind = "str"
    THEN <<Field(item, field).items[1]>>
    ELSE <<>>

ContentGiven(item) == HasField(item, "content") /\ Field(item, "content").kind = "str"

ContentNull(item) == HasField(item, "content") /\ Field(item, "content").kind = "null"

\* C12: after a successful parse every rule has a non-empty name, a content that is
\* the configured string, the name when content is omitted and empty when content is
\* null, and list-valued regexes, author_association, skip_if (and remove_if for a
\* label), a bare string having become a one-element list.
C12_ParsedRuleShape ==
    LoadSucceeded =>
        /\ Len(params.labels) = Len(config.labels)
        /\ Len(params.comments) = Len(config.comments)
        /\ \A i \in 1..Len(params.labels) :
              LET item == config.labels[i]
                  rule == params.labels[i]
              IN  /\ rule.name # "" /\ rule.name = Field(item, "name").items[1]
                  /\ rule.content = (IF ContentGiven(item) THEN Field(item, "content").items[1]
                                     ELSE IF ContentNull(item) THEN "" ELSE rule.name)
                  /\ \A f \in ListFields : rule[f] = ExpectedList(item, f)
        /\ \A i \in 1..Len(params.comments) :
              LET item == config.comments[i]
                  rule == params.comments[i]
              IN  /\ rule.name # "" /\ rule.name = Field(item, "name").items[1]
                  /\ rule.content = (IF ContentGiven(item) THEN Field(item, "content").items[1]
                                     ELSE IF ContentNull(item) THEN <<>> ELSE <<rule.name>>)
                  /\ \A f \in ListFields \ {"remove_if"} : rule[f] = ExpectedList(item, f)

\* a parsed document with a bare-string regexes, an omitted content and a null content
C12_Witness ==
    /\ LoadSucceeded /\ pc = "listing"
    /\ \E i \in 1..Len(config.labels) :
          HasField(config.labels[i], "regexes") /\ Field(config.labels[i], "regexes").kind = "str"
            /\ Len(params.labels[i].regexes) = 1
    /\ \E i \in 1..Len(config.labels) :
          ~HasField(config.labels[i], "content") /\ params.labels[i].content = "B"
    /\ \E i \in 1..Len(config.labels) :
          ContentNull(config.labels[i]) /\ params.labels[i].content = ""

\* what a default-mode document says: the direction (add or remove) is enabled for
\* the event when the two are paired, or when one of them stands alone
DefaultEnables(modeItem, ev, direction) ==
    IF modeItem.kind \in {"str", "arr"}
    THEN \E i \in 1..Len(modeItem.items) : modeItem.items[i] \in {ev, direction}
    ELSE \E i \in 1..Len(modeItem.items) :
            LET key   == modeItem.items[i][1]
                value == modeItem.items[i][2]
            IN  \/ key = ev /\ (value.kind = "null" \/ Includes(value.items, direction))
                \/ key = direction /\ (value.kind = "null" \/ Includes(value.items, ev))

OwnMode(item) == HasField(item, "mode")

\* C13 as claimed: a configured default-mode is the mode of every rule without its
\* own mode: such a label rule has add and remove enabled as default-mode says, and
\* such a comment rule is admitted exactly for the events default-mode enables.
C13_DefaultModeForEveryRule ==
    (LoadSucceeded /\ config.has_default_mode) =>
        /\ \A i \in 1..Len(config.labels) : ~OwnMode(config.labels[i]) =>
              \A ev \in EventTypes : \A direction \in {"add", "remove"} :
                 ModeEnables(params.labels[i].mode[direction], ev)
                    <=> DefaultEnables(config.default_mode, ev, direction)
        /\ \A i \in 1..Len(config.comments) : ~OwnMode(config.comments[i]) =>
              \A ev \in EventTypes :
                 ModeEnables(params.comments[i].mode.event, ev)
                    <=> \E direction \in {"add", "remove"} :
                           DefaultEnables(config.default_mode, ev, direction)

\* C13 amended: a configured default-mode is the mode of every label rule without
\* its own mode; a comment rule without its own mode has type add and is admitted
\* for every event type, whatever default-mode says.
C13_DefaultModeForLabelRules ==
    (LoadSucceeded /\ config.has_default_mode) =>
        /\ \A i \in 1..Len(config.labels) : ~OwnMode(config.labels[i]) =>
              \A ev \in EventTypes : \A direction \in {"add", "remove"} :
                 ModeEnables(params.labels[i].mode[direction], ev)
                    <=> DefaultEnables(config.default_mode, ev, direction)
        /\ \A i \in 1..Len(config.comments) : ~OwnMode(config.comments[i]) =>
              /\ params.comments[i].mode.type = "add"
              /\ \A ev \in EventTypes : ModeEnables(params.comments[i].mode.event, ev)

\* a parsed document whose default-mode leaves out the event of the run, with a
\* label rule and a comment rule that have no mode of their own
C13_Witness ==
    /\ LoadSucceeded /\ config.has_default_mode
    /\ \A direction \in {"add", "remove"} :
          ~DefaultEnables(config.default_mode, event_name, direction)
    /\ \E i \in 1..Len(config.labels) : ~OwnMode(config.labels[i])
    /\ \E i \in 1..Len(config.comments) : ~OwnMode(config.comments[i])

\* C14: without default-mode, a label rule without its own mode has add enabled for
\* every recognized event type, and remove enabled for every event type when
\* sync-labels is 1 and for none when sync-labels is 0.
C14_SyncLabelsDefaultMode ==
    (LoadSucceeded /\ ~config.has_default_mode) =>
        /\ syncLabels \in {Num(0), Num(1)}
        /\ \A i \in 1..Len(config.labels) : ~OwnMode(config.labels[i]) =>
              \A ev \in EventTypes :
                 /\ ModeEnables(params.labels[i].mode.add, ev)
                 /\ ModeEnables(params.labels[i].mode.remove, ev) <=> syncLabels = Num(1)

\* a run with sync-labels 0 that parsed a rule without mode from a document without
\* default-mode, and ended
C14_Witness ==
    /\ LoadSucceeded /\ ~config.has_default_mode /\ pc = "end"
    /\ syncLabels = Num(0)
    /\ \E i \in 1..Len(config.labels) :
          ~OwnMode(config.labels[i]) /\ ~params.labels[i].mode.remove.all

(***************************************************************************)
(* Properties of the default modes of src/main.ts.                         *)
(***************************************************************************)
\* C15: in src/main.ts, without default-mode and with sync-labels 0 or 1, checkEvent
\* reports add enabled for a rule without its own mode on the events issues,
\* pull_request, pull_request_target and issue_comment: the rule is not left out.
C15_TsDefaultModeAddsOnEveryEvent ==
    (program = "ts" /\ pc = "done") =>
        \A k \in 1..Len(itemMap) : \A sync \in {0, 1} :
            itemMap[k].mode = TsDefaultMode(sync) =>
                /\ checkEvent(event_name, itemMap[k].mode, "add")
                /\ result.trace[k] # "inert"

(***************************************************************************)
(* Properties of run(): inputs.                                            *)
(***************************************************************************)
\* C16: a sync-labels input that is neither 0 nor 1 makes a non-push run that loads
\* the configuration fail before any mutating request, with or without default-mode.
C16_InvalidSyncLabelsFails ==
    (LoadDone /\ syncLabels \notin {Num(0), Num(1)}) =>
        /\ pc \in {"end", "settled"} /\ failed
        /\ \A i \in 1..Len(calls) : calls[i].op \notin MutatingOps

\* C17: a comment rule with no regexes and no url_list that is not skipped fires
\* (takes its add or update branch) whenever its mode admits the event and its
\* author-association patterns match, whatever the content.
C17_CommentRuleWithoutPatternsFires ==
    (program = "comment" /\ pc = "done") =>
        \A k \in 1..Len(itemMap) :
            ( /\ Len(itemMap[k].regexes) = 0
              /\ ~itemMap[k].has_url_list
              /\ ~NamesFired(itemMap[k].skip_if, k)
              /\ ModeEnables(itemMap[k].mode.event, event_name)
              /\ checkAuthorAssociation(author_association, itemMap[k].author_association) )
            => result.trace[k] \in {"add", "update"}

\* the text the claim says is matched
MatchedText ==
    IF includeTitle = Num(1) THEN title \o <<"NL", "NL">> \o issueContent ELSE issueContent

Requested(op) == SelectSeq(calls, LAMBDA c : c.op = op)

\* C18: with include-title 1 the label rules and the comment rules alike are matched
\* against the title, a blank line and the body, with include-title 0 against the
\* body alone: the labels requested and the comments posted are those of that text.
C18_TitleIncludedForLabelsAndComments ==
    (LoadSucceeded /\ pc \in {"end", "settled"}) =>
        /\ \A label \in Range(labelRuleAnalyze(params.labels, MatchedText,
                                               author_association, event_name).add) :
              label \notin issueLabels =>
                 \E i \in 1..Len(calls) :
                    calls[i].op = "addLabels" /\ Includes(calls[i].arg, label)
        /\ Len(Requested("createComment"))
              = Len(commentRuleAnalyze(params.comments, MatchedText, author_association,
                                       event_name, Distinct(links)).add)

(***************************************************************************)
(* SpecMatch: checkRegexes and checkAuthorAssociation applied to a list of *)
(* patterns; itemMap holds the patterns.                                   *)
(***************************************************************************)
MaxPatterns == 3

PatternUniverse ==
    { <<"a">>, <<"b">>, <<"/", "A", "/", "i">>, <<"N", "E">>, <<"/", "o", "w", "/", "i">> }

MatchTexts == { <<"a">>, <<"a", "b">>, <<"B">> }

Outcome(ok) == IF ok THEN "matched" ELSE "unmatched"

InitMatch ==
    /\ program = "match"
    /\ itemMap \in SeqsUpTo(PatternUniverse, MaxPatterns)
    /\ issueContent \in MatchTexts
    /\ author_association \in Associations
    /\ event_name = "issues"
    /\ links = <<>>
    /\ pc = "start"
    /\ result = NoResult
    /\ RunIdle

MatchPass ==
    /\ program = "match"
    /\ pc = "start"
    /\ result' = [NoResult EXCEPT !.trace =
                     << Outcome(checkRegexes(issueContent, itemMap)),
                        Outcome(checkAuthorAssociation(author_association, itemMap)) >>]
    /\ pc' = "done"
    /\ UNCHANGED <<program, itemMap, issueContent, author_association, event_name, links>>
    /\ UNCHANGED runVars

NextMatch == MatchPass

SpecMatch == InitMatch /\ [][NextMatch]_vars

\* C20: checkRegexes and checkAuthorAssociation succeed on the empty list and, on a
\* non-empty list, succeed iff every pattern of the list matches the text by
\* itself, wherever in the list a pattern that does not match stands.
C20_PatternConjunction ==
    (program = "match" /\ pc = "done") =>
        /\ result.trace[1] = "matched"
              <=> \A i \in 1..Len(itemMap) : MatchPattern(issueContent, itemMap[i])
        /\ result.trace[2] = "matched"
              <=> \A i \in 1..Len(itemMap) : MatchPattern(author_association, itemMap[i])

\* a list of three patterns of which only the last one fails on the content
C20_Witness ==
    /\ program = "match" /\ pc = "done"
    /\ Len(itemMap) = 3
    /\ MatchPattern(issueContent, itemMap[1]) /\ MatchPattern(issueContent, itemMap[2])
    /\ ~MatchPattern(issueContent, itemMap[3])
    /\ result.trace[1] = "unmatched"

(***************************************************************************)
(* SpecMode: parseLabelMode run one loop iteration at a time on the value  *)
(* of a `mode` field, and parseCommentMode applied to one; itemMap holds   *)
(* the value, result the mode map and the number of entries consumed.      *)
(***************************************************************************)
MaxTokens == 3

ModeTokens == {"add", "remove", "issues", "push", "bogus"}

ModeValues ==
    { Null, Number(1), Str("add"), Str("push"), Str("bogus"), Arr(<<"add", "remove">>),
      Arr(<<"issues">>), Arr(<<"issues", "bogus">>) }

ModePairs == { <<key, value>> : key \in ModeTokens, value \in ModeValues }

LabelModeItems ==
    {Null, Number(1)}
        \cup { Str(t) : t \in ModeTokens }
        \cup { Arr(tokens) : tokens \in SeqsUpTo(ModeTokens, MaxTokens) }
        \cup { Obj(pairs) : pairs \in { ps \in SeqsUpTo(ModePairs, 2) :
                                           \A i, j \in 1..Len(ps) :
                                              ps[i][1] = ps[j][1] => i = j } }

CommentModeItems ==
    {Null, Number(1), Str("add"), Str("update"), Str("issues")}
        \cup { Obj(pairs) : pairs \in
                 { ps \in SeqsUpTo({ <<key, value>> :
                                        key \in {"type", "event", "bogus"},
                                        value \in { Str("add"), Str("update"), Str("issues"),
                                                    Str("bogus"), Null, Arr(<<>>),
                                                    Arr(<<"issues">>),
                                                    Arr(<<"issues", "pull_request">>),
                                                    Arr(<<"bogus">>) } }, 2) :
                     \A i, j \in 1..Len(ps) : ps[i][1] = ps[j][1] => i = j } }

\* the iterations of the loop of parseLabelMode: one for a string
ModeEntries(modeItem) ==
    IF modeItem.kind = "str" THEN 1
    ELSE IF modeItem.kind \in {"arr", "obj"} THEN Len(modeItem.items)
    ELSE 0

\* iteration k of parseLabelMode on modeItem
AppendModeEntry(mode, modeItem, k) ==
    IF modeItem.kind \in {"str", "arr"}
    THEN appendLabelMode(mode, modeItem.items[k], AllEvents)
    ELSE LET key   == modeItem.items[k][1]
             value == modeItem.items[k][2]
         IN  IF value.kind = "null" THEN appendLabelMode(mode, key, AllEvents)
             ELSE IF value.kind \in {"str", "arr"}
             THEN appendLabelMode(mode, key, OnEvents(value.items))
             ELSE [mode EXCEPT !.error = TRUE]

InitMode ==
    /\ program \in {"labelMode", "commentMode"}
    /\ itemMap \in (IF program = "labelMode" THEN LabelModeItems ELSE CommentModeItems)
    /\ issueContent = <<>>
    /\ author_association = NONE
    /\ event_name = "issues"
    /\ links = <<>>
    /\ pc = "start"
    /\ result = [mode |-> EmptyModeMap, consumed |-> 0]
    /\ RunIdle

\* one iteration of the loop; a throw ends the parse
LabelModeAppend ==
    /\ program = "labelMode"
    /\ pc = "start"
    /\ result.consumed < ModeEntries(itemMap)
    /\ \E next \in {AppendModeEntry(result.mode, itemMap, result.consumed + 1)} :
          /\ result' = [mode |-> next, consumed |-> result.consumed + 1]
          /\ pc' = IF next.error THEN "thrown" ELSE "start"
    /\ UNCHANGED <<program, itemMap, issueContent, author_association, event_name, links>>
    /\ UNCHANGED runVars

\* return modeMap
LabelModeReturn ==
    /\ program = "labelMode"
    /\ pc = "start"
    /\ result.consumed = ModeEntries(itemMap)
    /\ pc' = "done"
    /\ UNCHANGED <<program, itemMap, issueContent, author_association, event_name, links,
                   result>>
    /\ UNCHANGED runVars

CommentModeParse ==
    /\ program = "commentMode"
    /\ pc = "start"
    /\ \E parsed \in {parseCommentMode(itemMap)} :
          /\ result' = [mode |-> parsed, consumed |-> 0]
          /\ pc' = IF parsed.error THEN "thrown" ELSE "done"
    /\ UNCHANGED <<program, itemMap, issueContent, author_association, event_name, links>>
    /\ UNCHANGED runVars

NextMode == LabelModeAppend \/ LabelModeReturn \/ CommentModeParse

SpecMode == InitMode /\ [][NextMode]_vars

\* the tokens of a mode: the string, the entries of the list, the keys of the mapping
TokensOf(modeItem) ==
    IF modeItem.kind \in {"str", "arr"} THEN Range(modeItem.items)
    ELSE IF modeItem.kind = "obj"
    THEN {modeItem.items[i][1] : i \in 1..Len(modeItem.items)}
    ELSE {}

\* the values listed under the event-type keys of a mapping
EventKeyValues(modeItem) ==
    IF modeItem.kind # "obj" THEN {}
    ELSE UNION { Range(modeItem.items[i][2].items) :
                    i \in { j \in 1..Len(modeItem.items) :
                               /\ modeItem.items[j][1] \in EventTypes
                               /\ modeItem.items[j][2].kind \in {"str", "arr"} } }

\* C21: parseLabelMode throws, and so returns no mode, when a token of the mode is
\* neither add nor remove nor one of the five event types, and when a value listed
\* under an event-type key is neither add nor remove.
C21_UnknownModeTokenFails ==
    (program = "labelMode" /\ pc \in {"done", "thrown"}) =>
        /\ (pc = "thrown") = parseLabelMode(itemMap).error
        /\ (\E t \in TokensOf(itemMap) : t \notin {"add", "remove"} \cup EventTypes)
              => pc = "thrown"
        /\ (\E t \in EventKeyValues(itemMap) : t \notin {"add", "remove"}) => pc = "thrown"

\* a list whose unknown token comes last, and a mapping with an unknown value under
\* an event type, have thrown
C21_Witness ==
    /\ program = "labelMode" /\ pc = "thrown"
    /\ \/ itemMap = Arr(<<"add", "issues", "bogus">>)
       \/ itemMap = Obj(<< <<"add", Null>>, <<"issues", Arr(<<"issues", "bogus">>)>> >>)

\* two parses agree: both throw, or both answer needAdd and needRemove alike for
\* every event type
ModesAgree(m1, m2) ==
    /\ m1.error = m2.error
    /\ ~m1.error =>
          \A ev \in EventTypes :
             /\ ModeEnables(m1.add, ev) = ModeEnables(m2.add, ev)
             /\ ModeEnables(m1.remove, ev) = ModeEnables(m2.remove, ev)

\* C27: parseLabelMode on a list of tokens depends on the set of tokens only: every
\* list of the same tokens, in any order and with any of them repeated, throws as
\* well or gives the same needAdd and needRemove for every event type; and a
\* direction that was `true` after some prefix of the list is `true` from then on.
C27_ModeOrderIndependent ==
    (program = "labelMode" /\ itemMap.kind = "arr") =>
        /\ pc \in {"done", "thrown"} =>
              \A other \in SeqsUpTo(Range(itemMap.items), Len(itemMap.items) + 1) :
                  Range(other) = Range(itemMap.items) =>
                      ModesAgree(result.mode, parseLabelMode(Arr(other)))
        /\ ~result.mode.error =>
              \A k \in 0..result.consumed :
                  LET before == parseLabelMode(Arr(SubSeq(itemMap.items, 1, k)))
                  IN  /\ before.add.all => result.mode.add.all
                      /\ before.remove.all => result.mode.remove.all

\* an event type listed before and after `add`: add is true, remove lists the event
C27_Witness ==
    /\ program = "labelMode" /\ pc = "done"
    /\ itemMap = Arr(<<"issues", "add", "issues">>)
    /\ result.mode.add.all
    /\ ~result.mode.remove.all
    /\ Range(result.mode.remove.events) = {"issues"}

\* the value of `event` in the mapping of a comment mode
EventField(modeItem) == Lookup(modeItem.items, "event")

\* a comment mode whose `event` is a recognized event type or a non-empty list of
\* them, and whose `type`, if given, is add or update
WellFormedEvent(modeItem) ==
    /\ modeItem.kind = "obj"
    /\ HasKey(modeItem.items, "event")
    /\ \A i \in 1..Len(modeItem.items) :
          \/ modeItem.items[i][1] = "event"
          \/ modeItem.items[i][1] = "type" /\ modeItem.items[i][2] \in {Str("add"), Str("update")}
    /\ EventField(modeItem).kind \in {"str", "arr"}
    /\ EventField(modeItem).items # <<>>
    /\ Range(EventField(modeItem).items) \subseteq EventTypes

\* C30: parseCommentMode accepts an `event` that is a list of recognized event types
\* or one recognized event type, and the mode it returns admits exactly the event
\* types given.
C30_CommentModeEventList ==
    (program = "commentMode" /\ pc \in {"done", "thrown"} /\ WellFormedEvent(itemMap)) =>
        /\ pc = "done"
        /\ \A ev \in EventTypes :
              ModeEnables(result.mode.event, ev) <=> ev \in Range(EventField(itemMap).items)

(***************************************************************************)
(* Properties of the loop body of labelRuleAnalyze and commentRuleAnalyze. *)
(***************************************************************************)
\* C22: in labelRuleAnalyze a rule whose skip_if and whose remove_if both name a
\* rule that was added is skipped: it appends nothing to the remove list.
C22_SkipBeatsRemoveIf ==
    (pc = "done" /\ program = "dist") =>
        \A k \in 1..Len(itemMap) :
            (NamesFired(itemMap[k].skip_if, k) /\ NamesFired(itemMap[k].remove_if, k)) =>
                /\ result.trace[k] = "skip"
                /\ LabelLoopAt(k).removeItems = LabelLoopAt(k - 1).removeItems

\* such a rule with a content that no other rule removed: the content is not in
\* the returned remove list
C22_Witness ==
    /\ pc = "done" /\ program = "dist"
    /\ \E k \in 1..Len(itemMap) :
          /\ NamesFired(itemMap[k].skip_if, k)
          /\ NamesFired(itemMap[k].remove_if, k)
          /\ itemMap[k].content # ""
          /\ ~Includes(result.remove, itemMap[k].content)

NeedAdd(k) ==
    IF program = "dist" THEN ModeEnables(itemMap[k].mode.add, event_name)
    ELSE checkEvent(event_name, itemMap[k].mode, "add")

NeedRemove(k) ==
    IF program = "dist" THEN ModeEnables(itemMap[k].mode.remove, event_name)
    ELSE checkEvent(event_name, itemMap[k].mode, "remove")

\* C23: a label rule with a non-empty content whose skip_if and remove_if name no
\* added rule puts its content in the add list iff its condition holds (every
\* author-association pattern and every regex matches) and add is enabled for the
\* event, and in the remove list iff its condition fails and remove is enabled; when
\* its condition holds and add is disabled, the remove list stays as it was even
\* with remove enabled.
C23_AddIffRemoveIff ==
    (pc = "done" /\ program \in {"dist", "ts"}) =>
        \A k \in 1..Len(itemMap) :
            (/\ itemMap[k].content # ""
             /\ ~NamesFired(itemMap[k].skip_if, k)
             /\ ~NamesFired(itemMap[k].remove_if, k)) =>
                LET a == LabelLoopAt(k - 1)
                    b == LabelLoopAt(k)
                IN  /\ b.addItems = IF RuleMatches(k) /\ NeedAdd(k)
                                    THEN PushNew(a.addItems, itemMap[k].content)
                                    ELSE a.addItems
                    /\ b.removeItems = IF ~RuleMatches(k) /\ NeedRemove(k)
                                       THEN PushNew(a.removeItems, itemMap[k].content)
                                       ELSE a.removeItems

\* a rule whose condition holds, with add disabled and remove enabled, and whose
\* content is not removed
C23_Witness ==
    /\ pc = "done" /\ program = "dist"
    /\ \E k \in 1..Len(itemMap) :
          /\ itemMap[k].content # ""
          /\ Len(itemMap[k].regexes) > 0
          /\ RuleMatches(k)
          /\ ~NeedAdd(k) /\ NeedRemove(k)
          /\ ~Includes(result.remove, itemMap[k].content)
          /\ ~Includes(result.add, itemMap[k].content)

EmptyContent(k) == itemMap[k].content = (IF program = "comment" THEN <<>> ELSE "")

\* the names registered after the first k rules
NamesAt(k) ==
    IF program = "comment" THEN CommentLoopAt(k).addItemNames ELSE LabelLoopAt(k).addItemNames

\* the condition of comment rule k holds for an event its mode admits
CommentFires(k) ==
    /\ ModeEnables(itemMap[k].mode.event, event_name)
    /\ checkAuthorAssociation(author_association, itemMap[k].author_association)
    /\ CommentCondition(itemMap[k], issueContent, Distinct(links))

\* rule k reaches its add branch: nothing skips it, its condition holds, add is enabled
AddBranch(k) ==
    IF program = "comment"
    THEN /\ ~Hit(itemMap[k].skip_if, CommentLoopAt(k - 1))
         /\ CommentFires(k)
         /\ itemMap[k].mode.type = "add"
    ELSE /\ ~Hit(itemMap[k].skip_if, LabelLoopAt(k - 1))
         /\ ~Hit(itemMap[k].remove_if, LabelLoopAt(k - 1))
         /\ RuleMatches(k)
         /\ NeedAdd(k)

\* C24: a label or comment rule whose content is the empty string leaves the add,
\* update and remove lists as they were; when its condition holds with add enabled
\* its name is registered all the same, and every later rule whose skip_if names it
\* is skipped, every later label rule whose remove_if (and not skip_if) names it is
\* force-removed.
C24_EmptyContentStillRegisters ==
    (pc = "done" /\ program \in {"dist", "comment"}) =>
        \A k \in 1..Len(itemMap) :
            EmptyContent(k) =>
                /\ IF program = "comment"
                   THEN /\ CommentLoopAt(k).addItems = CommentLoopAt(k - 1).addItems
                        /\ CommentLoopAt(k).updateItems = CommentLoopAt(k - 1).updateItems
                   ELSE /\ LabelLoopAt(k).addItems = LabelLoopAt(k - 1).addItems
                        /\ LabelLoopAt(k).removeItems = LabelLoopAt(k - 1).removeItems
                /\ AddBranch(k) =>
                      /\ itemMap[k].name \in NamesAt(k)
                      /\ \A j \in (k + 1)..Len(itemMap) :
                            /\ Includes(itemMap[j].skip_if, itemMap[k].name)
                                  => result.trace[j] = "skip"
                            /\ (/\ program = "dist"
                                /\ Includes(itemMap[j].remove_if, itemMap[k].name)
                                /\ result.trace[j] # "skip")
                                  => result.trace[j] = "remove_if"

\* an empty rule that is the only one to register its name, followed by a rule that
\* is skipped because of it: one case for labels, one for comments
C24_Witness ==
    /\ pc = "done" /\ program \in {"dist", "comment"}
    /\ Len(itemMap) = 2
    /\ EmptyContent(1) /\ AddBranch(1)
    /\ Includes(itemMap[2].skip_if, itemMap[1].name)
    /\ result.trace = <<"add", "skip">>
    /\ result.add = <<>>

\* C25 as claimed: every comment rule whose condition is satisfied for an admitted
\* event registers its name, for type update as for type add, so that a later
\* comment rule whose skip_if names it is skipped.
C25_EveryFiredCommentRegisters ==
    (pc = "done" /\ program = "comment") =>
        \A k \in 1..Len(itemMap) :
            (~Hit(itemMap[k].skip_if, CommentLoopAt(k - 1)) /\ CommentFires(k)) =>
                /\ itemMap[k].name \in NamesAt(k)
                /\ \A j \in (k + 1)..Len(itemMap) :
                      Includes(itemMap[j].skip_if, itemMap[k].name) => result.trace[j] = "skip"

\* C25 amended: a comment rule whose condition is satisfied for an admitted event
\* registers its name when its type is add, and registers nothing when its type is
\* update: a later rule is skipped exactly when its skip_if names a registered name,
\* so naming an update-type rule that fired does not skip it.
C25_OnlyAddTypeRegisters ==
    (pc = "done" /\ program = "comment") =>
        \A k \in 1..Len(itemMap) :
            /\ (~Hit(itemMap[k].skip_if, CommentLoopAt(k - 1)) /\ CommentFires(k)) =>
                  NamesAt(k) = IF itemMap[k].mode.type = "add"
                               THEN NamesAt(k - 1) \cup {itemMap[k].name}
                               ELSE NamesAt(k - 1)
            /\ result.trace[k] = "skip"
                  <=> \E i \in 1..(k - 1) :
                         /\ Includes(itemMap[k].skip_if, itemMap[i].name)
                         /\ AddBranch(i)

\* an update-type rule that fired, named by the skip_if of a later rule that fired too
C25_Witness ==
    /\ pc = "done" /\ program = "comment"
    /\ Len(itemMap) = 2
    /\ itemMap[1].mode.type = "update" /\ CommentFires(1)
    /\ Includes(itemMap[2].skip_if, itemMap[1].name)
    /\ result.trace = <<"update", "add">>
    /\ result.names = {itemMap[2].name}

(***************************************************************************)
(* Properties of run(): failures of the backend.                           *)
(***************************************************************************)
\* the labels the run knows to be on the issue: none when the listing failed
KnownLabels ==
    IF \E i \in warnings : calls[i].op = "listLabelsOnIssue" THEN {} ELSE issueLabels

LabelText ==
    (IF includeTitle = Num(1) THEN title \o <<"NL", "NL">> ELSE <<>>) \o issueContent

LabelsDecided == labelRuleAnalyze(params.labels, LabelText, author_association, event_name)

CommentsDecided ==
    commentRuleAnalyze(params.comments, issueContent, author_association, event_name,
                       Distinct(links))

MaxRequestRules == 2

\* the request replaces the labels of the issue by those it carries
RequestEffect_SetsLabels(call, labels) ==
    IF call.op = "addLabels" THEN Range(call.arg)
    ELSE IF call.op = "removeLabel" THEN labels \ {call.arg}
    ELSE labels

\* what a request that succeeds does to the labels of the issue
RequestEffect(call, labels) ==
    IF call.op = "addLabels" THEN labels \cup Range(call.arg)
    ELSE IF call.op = "removeLabel" THEN labels \ {call.arg}
    ELSE labels

InitRequests ==
    /\ program = "requests"
    /\ itemMap \in SeqsUpTo(LabelRuleUniverse, MaxRequestRules)
    /\ issueContent \in Contents
    /\ author_association = NONE
    /\ event_name = "issues"
    /\ links = <<>>
    /\ pc = "start"
    /\ notBefore = NaN /\ created_at = NaN /\ comment_id = 0
    /\ includeTitle = Num(0) /\ title = <<>> /\ commits = <<>>
    /\ config = [readable |-> FALSE]
    /\ syncLabels \in {Num(0), Num(1)}
    /\ issueLabels \in {{}, {"x"}, {"B"}, {"x", "A", "B"}}
    /\ result = [labels |-> issueLabels, completed |-> {}]
    /\ issue_number = <<1>>
    /\ params = NoParams
    /\ calls = <<>> /\ failed = FALSE /\ warnings = {}

\* the analysis of the label rules and the requests that follow from it
RequestsDispatched ==
    /\ program = "requests"
    /\ pc = "start"
    /\ \E labelResult \in {labelRuleAnalyze(itemMap, issueContent, author_association,
                                            event_name)} :
          calls' = DispatchCalls(issue_number[1], labelResult, NoResult, issueLabels,
                                 syncLabels, event_name, comment_id)
    /\ pc' = "end"
    /\ UNCHANGED <<analysisVars, notBefore, syncLabels, created_at, comment_id, includeTitle,
                   title, commits, config, issueLabels, issue_number, params, failed,
                   warnings>>

\* one of the requests that are under way completes at the backend
RequestCompletes ==
    /\ program = "requests"
    /\ pc = "end"
    /\ \E i \in (1..Len(calls)) \ result.completed :
          result' = [labels |-> RequestEffect(calls[i], result.labels),
                     completed |-> result.completed \cup {i}]
    /\ UNCHANGED <<program, itemMap, issueContent, author_association, event_name, links>>
    /\ UNCHANGED <<pc, runVars>>

NextRequests == RequestsDispatched \/ RequestCompletes

SpecRequests == InitRequests /\ [][NextRequests]_vars

\* no label is carried by an addLabels request and by a removeLabel request
DisjointTargets ==
    \A i, j \in 1..Len(calls) :
        (calls[i].op = "addLabels" /\ calls[j].op = "removeLabel")
            => ~Includes(calls[i].arg, calls[j].arg)

AllCompleted == pc = "end" /\ result.completed = 1..Len(calls)

AnalysisOfRequests ==
    labelRuleAnalyze(itemMap, issueContent, author_association, event_name)

C26_FatalErrorBeforeMutation ==
    (program = "run" /\ event_name # "push" /\ failed) =>
        \A i \in 1..Len(calls) : calls[i].op \notin MutatingOps

\* the arguments of the requests of one kind, in the order they were issued
Args(op) == [i \in 1..Len(Requested(op)) |-> Requested(op)[i].arg]

\* C28: the label requests of a run on an issue, pull request or comment are exactly:
\* one addLabels request carrying the labels of the add list that the listing did
\* not return, or none when there is no such label; and, when sync-labels is a
\* non-zero number, one removeLabel request per label of the remove list that the
\* listing returned, and none at all otherwise, whatever the modes of the rules.
C28_LabelRequestsExactly ==
    (LoadSucceeded /\ event_name # "push" /\ pc \in {"end", "settled"}) =>
        LET filtered  == SelectSeq(LabelsDecided.add, LAMBDA label : label \notin KnownLabels)
            removable == SelectSeq(LabelsDecided.remove, LAMBDA label : label \in KnownLabels)
        IN  /\ Args("addLabels") = IF filtered = <<>> THEN <<>> ELSE <<filtered>>
            /\ Args("removeLabel") = IF Truthy(syncLabels) THEN removable ELSE <<>>
            /\ \A i \in 1..Len(calls) :
                  calls[i].op \in {"addLabels", "removeLabel"} => calls[i].target = issue_number[1]

\* sync-labels 0, a rule whose own mode enables remove for every event and whose
\* label is in the remove list and on the issue: the label is not removed
C28_Witness ==
    /\ LoadSucceeded /\ event_name # "push" /\ pc = "end"
    /\ syncLabels = Num(0)
    /\ warnings = {}
    /\ \E k \in 1..Len(params.labels) :
          /\ params.labels[k].mode.remove.all
          /\ Includes(LabelsDecided.remove, params.labels[k].content)
          /\ params.labels[k].content \in issueLabels
    /\ Requested("removeLabel") = <<>>

====
